---- MODULE Spec2Model ----
(***************************************************************************)
(* The App of vscode-rss (src/src/app.ts) as a state machine: the command  *)
(* handlers of class App, the refresh guard App.updating, and the          *)
(* Collection each handler talks to.  The Collection classes themselves    *)
(* (collection.ts, local_collection.ts, ...) are not part of src/; their   *)
(* operations are modelled from the specification's contract (section 4).  *)
(***************************************************************************)
EXTENDS Integers, Sequences, FiniteSets, Bags, TLC

(***************************************************************************)
(* Bounds of the model.                                                    *)
(***************************************************************************)
\* refresh requests that arrive while the guard is idle are counted up to here
MaxRequests == 2
\* commits of one collection that may be in flight at the same time
MaxCommits == 2
\* article panels that may be open at the same time
MaxPanels == 1
\* items a remote service returns in one page of a listing
PageSize == 2
\* the configured maximum item count of a remote listing
MaxItems == 3
\* the configured parallelism ceiling of a local fetchAll
Ceiling == 1
\* the generateBrief messages the panels send
MaxBriefs == 2
\* the chunks of one stream
MaxChunks == 2

Accounts == {"A", "B"}
FeedURLs == {"f", "g"}
Articles == {1, 2}
Undefined == "undefined"
Unread == "<unread>"

\* the feed an upstream article belongs to, and its age in days
FeedOf(i) == IF i % 2 = 1 THEN "f" ELSE "g"
AgeDays(i) == IF i % 2 = 1 THEN 100 ELSE 45

VARIABLES
    cfg_accounts,     \* keys of App.cfg.accounts
    collections,      \* keys of App.collections
    current_account,  \* App.current_account
    current_feed,     \* App.current_feed
    updating,         \* App.updating
    tasks,            \* refresh callbacks awaiting their fetches
    orphans,          \* fetches still running whose Promise.all already rejected
    feeds,            \* per collection: the feeds that have a Summary
    abstracts,        \* per collection: the in-memory Abstract of every article
    favorites,        \* per collection: the FavoritesList
    stored,           \* per collection: the persisted copy of every Abstract
    dirty,            \* per collection: the pending set of the DirtyTracker
    commits,          \* per collection: snapshots of the commits in flight
    panels,           \* open article webview panels (rss_read)
    nIdle,            \* refresh requests that arrived while the guard was idle
    nRounds,          \* refresh rounds started (the guard taken)
    last,             \* the handler that ran last, with its arguments and result
    session,          \* per account: the state of its remote backend session
    call,             \* the remote API call in flight
    pushing,          \* the flush of a remote collection that is pushing
    validator,        \* per collection and feed: the validator of the last fetch
    upstream,         \* the articles their feeds have published
    reading,          \* rss_read calls suspended at `await getContent`
    removing,         \* removeAccount calls suspended at `await collection.clean()`
    listing,          \* the paged listing of a remote fetch in flight
    fanout,           \* the per-feed fetches of a local fetchAll in flight
    secret,           \* SecretStorage: the value under 'rss.ai-brief-api-key'
    settings,         \* the rss.ai-brief-* settings
    briefCache,       \* AIBriefPanel.briefCache
    generatingArticles, \* AIBriefPanel.generatingArticles
    gens,             \* generateBrief calls suspended at an await
    posted            \* per panel: the messages posted to its webview

vars == <<cfg_accounts, collections, current_account, current_feed, updating,
          tasks, orphans, feeds, abstracts, favorites, stored, dirty, commits,
          panels, nIdle, nRounds, last, session, call, pushing, validator,
          upstream, reading, removing, listing, fanout, secret, settings,
          briefCache, generatingArticles, gens, posted>>

appVars == <<cfg_accounts, collections, current_account, current_feed>>
guardVars == <<updating, tasks, orphans>>
catalogVars == <<feeds, abstracts, favorites, stored, dirty, commits>>
countVars == <<nIdle, nRounds>>
remoteVars == <<session, call, pushing>>
fetchVars == <<validator, upstream>>
awaitVars == <<reading, removing, listing>>
configVars == <<secret, settings>>
briefVars == <<briefCache, generatingArticles, gens, posted>>
sideVars == <<fanout, configVars, briefVars>>

(***************************************************************************)
(* Records                                                                 *)
(***************************************************************************)
Absent == [present |-> FALSE, read |-> FALSE, starred |-> FALSE]
Fresh == [present |-> TRUE, read |-> FALSE, starred |-> FALSE]

Op(op, acct, feed, id, ok) ==
    [op |-> op, acct |-> acct, feed |-> feed, id |-> id, ok |-> ok, n |-> 0]

\* a handler that was given, or that counted, a number n
OpN(op, acct, feed, n) ==
    [op |-> op, acct |-> acct, feed |-> feed, id |-> 0, ok |-> TRUE, n |-> n]

\* the result a Collection call reported: its status and the items that failed
Result(op, acct, status, failed) ==
    [op |-> op, acct |-> acct, feed |-> "-", id |-> 0, ok |-> status = "ok", n |-> 0,
     status |-> status, failed |-> failed]

\* account.type of the account configuration: A is local, B a TTRSS account
Kind(c) == IF c = "A" THEN "local" ELSE "ttrss"
Remote(c) == Kind(c) # "local"

\* no remote API call in flight, no remote flush pushing
NoCall == [acct |-> "-", id |-> 0, pc |-> "idle", tries |-> 0, reauths |-> 0,
           autherrs |-> 0, status |-> "-"]
NoFlush == [acct |-> "-", d |-> {}, todo |-> {}, failed |-> {}]
\* no listing in flight
NoListing == [acct |-> "-", pages |-> 0, items |-> 0, pc |-> "idle"]

\* no local fetchAll in flight
NoFanout == [acct |-> "-", todo |-> {}, inflight |-> {}, ready |-> {}, merging |-> {},
             attempts |-> [url \in FeedURLs |-> 0]]

\* the webview panels that show articles
Panels == {"p", "q", "r"}
\* the article a panel was opened for: two panels show the same article
Shown(panel) == IF panel = "r" THEN 2 ELSE 1

\* a brief is the sequence of the chunks streamed; no entry in the cache
NoBrief == <<"-">>
NoBriefs == [i \in Articles |-> NoBrief]
\* the messages posted between a panel's webview and the extension, counted
NoMessages == [p \in Panels |-> EmptyBag]

\* texts are sequences of characters; the value undefined of a text
NoText == <<Undefined>>
Whitespace == {" "}
\* the texts a setting, a key or an input takes
Texts == {<<>>, <<" ">>, <<"k">>, <<" ", "k">>}
Keys == Texts \cup {NoText}

\* settings and SecretStorage of a fresh installation
NoSettings == [enabled |-> FALSE, endpoint |-> <<>>, model |-> <<>>, key |-> <<>>]
NoSecret == NoText

\* a message between a panel's webview and the extension
Msg(type, id) == [type |-> type, id |-> id]
\* the chunks a stream yields
Chunks == {"a", "b"}
\* renderMarkdown(content, isFinal): the HTML the libraries make of the text
renderMarkdown(content, isFinal) == [html |-> content, final |-> isFinal]
\* the briefChunk message carries the rendering of what has accumulated
Chunk(id, content) == [type |-> "briefChunk", id |-> id, content |-> content]
\* what a method call returned
Returned(op, value) == [op |-> op, value |-> value]

NoSession == [c \in Accounts |-> IF Remote(c) THEN "Unauthenticated" ELSE "none"]

Fetch(acct, url, force) == [acct |-> acct, url |-> url, force |-> force]

\* the fetches in flight, those of the tasks and the orphaned ones
InFlight == orphans \cup UNION {t.waiting : t \in tasks}

(***************************************************************************)
(* Collection: fetch merge (modelled from the specification)               *)
(***************************************************************************)
\* the feeds a fetch covers: fetchAll every known feed, fetchOne its url
Covered(c, url) == IF url = "*" THEN feeds[c] ELSE feeds[c] \cap {url}

\* the feeds of a fetch that may fail one by one: those of a fetchAll
Fallible(f) == IF f.url = "*" THEN Covered(f.acct, f.url) ELSE {}

\* the validator of a feed never fetched; the validator upstream serves for a
\* feed is the set of articles the feed has published
NoValidator == {0}
Version(url) == {i \in upstream : FeedOf(i) = url}
Current(c, url) == validator[c][url] = Version(url)

\* a fetch that downloads and writes every feed, whatever its validator
Fetched_always(f, failed) == Covered(f.acct, f.url) \ failed

\* the feeds a fetch that ends downloads, parses and writes: of those it covers
\* the ones that did not fail and, unless forced, whose validator is stale
Fetched(f, failed) ==
    {url \in Covered(f.acct, f.url) \ failed : f.force \/ ~Current(f.acct, url)}

\* new Abstracts of the feeds fs are appended unread; an Abstract already there
\* is kept
Merged(cat, fs) ==
    [i \in Articles |->
        IF FeedOf(i) \in fs /\ i \in upstream /\ ~cat[i].present THEN Fresh ELSE cat[i]]

\* the result of a fetch that resolved: the feeds that failed, the number of
\* feeds that did not, and the feeds whose Summary was written
FetchResult(op, f, failed) ==
    [op |-> op, acct |-> f.acct, feed |-> f.url, id |-> 0, ok |-> TRUE,
     n |-> Cardinality(Covered(f.acct, f.url) \ failed),
     status |-> IF failed = {} THEN "ok" ELSE "partial", failed |-> failed,
     force |-> f.force, written |-> Fetched(f, failed)]

\* the catalog and the validators after the feeds fs were fetched and merged
MergeFeeds(c, fs) ==
    /\ abstracts' = [abstracts EXCEPT ![c] = Merged(@, fs)]
    /\ stored' = [stored EXCEPT ![c] = Merged(@, fs)]
    /\ validator' = [validator EXCEPT ![c] =
          [url \in FeedURLs |-> IF url \in fs THEN Version(url) ELSE @[url]]]
    /\ UNCHANGED <<feeds, favorites, dirty, commits, upstream>>

\* a fetchAll that gives up at the first feed that fails
MergeFetch_aborts(f, failed) ==
    MergeFeeds(f.acct, IF failed = {} THEN Fetched(f, failed) ELSE {})

\* the fetch f ends, the feeds of failed having failed: every other feed it
\* covers is merged, a feed whose validator is current only when forced
MergeFetch(f, failed) == MergeFeeds(f.acct, Fetched(f, failed))

(***************************************************************************)
(* App: the refresh guard                                                  *)
(***************************************************************************)
currCollection == current_account

\* a handler that returned at `if (this.updating) return`
Ignored(op, acct, feed) ==
    /\ last' = Op(op, acct, feed, 0, FALSE)
    /\ UNCHANGED <<appVars, guardVars, catalogVars, panels, countVars, remoteVars, fetchVars, awaitVars, sideVars>>

\* this.updating = true; withProgress(async () => { await <fetches>; ... })
StartRound(kind, fs) ==
    /\ updating' = TRUE
    /\ tasks' = tasks \cup {[kind |-> kind, waiting |-> fs]}
    /\ nRounds' = nRounds + 1
    /\ UNCHANGED <<orphans, appVars, catalogVars, panels, remoteVars, fetchVars, awaitVars, sideVars>>

\* rss_refresh without the early return of line 511-513
rss_refresh_noreturn(auto) ==
    /\ nIdle < MaxRequests
    /\ nIdle' = IF updating THEN nIdle ELSE nIdle + 1
    /\ StartRound("rss_refresh", {Fetch(c, "*", TRUE) : c \in collections})
    /\ last' = Op("rss_refresh", "-", "-", 0, ~updating)

rss_refresh(auto) ==
    IF updating
    THEN Ignored("rss_refresh", "-", "-")
    ELSE /\ nIdle < MaxRequests
         /\ nIdle' = nIdle + 1
         /\ StartRound("rss_refresh", {Fetch(c, "*", TRUE) : c \in collections})
         /\ last' = Op("rss_refresh", "-", "-", 0, TRUE)

\* rss_refresh_account testing a flag that is never set
rss_refresh_account_unguarded(account) ==
    LET collection == IF account # Undefined THEN account ELSE currCollection
    IN /\ nIdle < MaxRequests
       /\ nIdle' = nIdle + 1
       /\ StartRound("rss_refresh_account", {Fetch(collection, "*", TRUE)})
       /\ last' = Op("rss_refresh_account", collection, "-", 0, TRUE)

\* rss_refresh_account guarded per account instead of per App
rss_refresh_account_perscope(account) ==
    LET collection == IF account # Undefined THEN account ELSE currCollection
    IN IF \E f \in InFlight : f.acct = collection
       THEN Ignored("rss_refresh_account", collection, "-")
       ELSE /\ nIdle < MaxRequests
            /\ nIdle' = nIdle + 1
            /\ StartRound("rss_refresh_account", {Fetch(collection, "*", TRUE)})
            /\ last' = Op("rss_refresh_account", collection, "-", 0, TRUE)

rss_refresh_account(account) ==
    LET collection == IF account # Undefined THEN account ELSE currCollection
    IN IF updating
       THEN Ignored("rss_refresh_account", collection, "-")
       ELSE /\ nIdle < MaxRequests
            /\ nIdle' = nIdle + 1
            /\ StartRound("rss_refresh_account", {Fetch(collection, "*", TRUE)})
            /\ last' = Op("rss_refresh_account", collection, "-", 0, TRUE)

rss_refresh_one(feed) ==
    IF updating
    THEN Ignored("rss_refresh_one", currCollection, feed)
    ELSE LET url == IF feed # Undefined THEN feed ELSE current_feed
         IN /\ nIdle < MaxRequests
            /\ nIdle' = nIdle + 1
            /\ IF url = Undefined
               THEN /\ last' = Op("rss_refresh_one", currCollection, url, 0, FALSE)
                    /\ UNCHANGED <<appVars, guardVars, catalogVars, panels, nRounds, remoteVars, fetchVars, awaitVars, sideVars>>
               ELSE /\ StartRound("rss_refresh_one", {Fetch(currCollection, url, TRUE)})
                    /\ last' = Op("rss_refresh_one", currCollection, url, 0, TRUE)

\* init(): the catalog a Collection loads from its store
Reloaded(c) == stored[c]

\* the key createLocalAccount('Default') gives the account it creates
DefaultKey == CHOOSE k \in Accounts : Kind(k) = "local"

\* the keys initAccounts works on: those configured, or that of the account
\* 'Default' it creates when none is configured
InitKeys == IF cfg_accounts = {} THEN {DefaultKey} ELSE cfg_accounts

\* initAccounts that makes and initialises a Collection for every key
initAccounts_reinit ==
    /\ cfg_accounts' = InitKeys
    /\ collections' = InitKeys
    /\ abstracts' = [c \in Accounts |-> IF c \in InitKeys THEN Reloaded(c) ELSE abstracts[c]]
    /\ favorites' = [c \in Accounts |->
          IF c \in InitKeys
          THEN {i \in Articles : Reloaded(c)[i].present /\ Reloaded(c)[i].starred}
          ELSE favorites[c]]
    /\ dirty' = [c \in Accounts |-> IF c \in InitKeys THEN {} ELSE dirty[c]]
    /\ current_account' =
          IF current_account = Undefined \/ current_account \notin InitKeys
          THEN CHOOSE k \in InitKeys : TRUE
          ELSE current_account
    /\ UNCHANGED <<current_feed, feeds, stored, commits>>

\* initAccounts: a Collection is made and initialised for every configured key
\* that has none, a Collection whose key is not configured is dropped, and
\* current_account falls back to a key of collections
initAccounts ==
    LET fresh == InitKeys \ collections
    IN /\ cfg_accounts' = InitKeys
       /\ collections' = InitKeys
       /\ abstracts' = [c \in Accounts |-> IF c \in fresh THEN Reloaded(c) ELSE abstracts[c]]
       /\ favorites' = [c \in Accounts |->
             IF c \in fresh
             THEN {i \in Articles : Reloaded(c)[i].present /\ Reloaded(c)[i].starred}
             ELSE favorites[c]]
       /\ dirty' = [c \in Accounts |-> IF c \in fresh THEN {} ELSE dirty[c]]
       /\ current_account' =
             IF current_account = Undefined \/ current_account \notin InitKeys
             THEN CHOOSE k \in InitKeys : TRUE
             ELSE current_account
       /\ UNCHANGED <<current_feed, feeds, stored, commits>>

\* onDidChangeConfiguration with affectsConfiguration('rss.accounts')
accountsChanged ==
    IF updating
    THEN Ignored("accountsChanged", "-", "-")
    ELSE /\ nIdle < MaxRequests
         /\ nIdle' = nIdle + 1
         /\ updating' = TRUE
         /\ tasks' = tasks \cup {[kind |-> "initAccounts", waiting |-> {}]}
         /\ nRounds' = nRounds + 1
         /\ last' = Op("accountsChanged", "-", "-", 0, TRUE)
         /\ UNCHANGED <<orphans, appVars, catalogVars, panels, remoteVars, fetchVars, awaitVars, sideVars>>

\* the handler resumes after `await this.initAccounts()` and starts fetchAll(false)
accountsChangedFetch ==
    \E t \in tasks :
        /\ t.kind = "initAccounts"
        /\ initAccounts
        /\ tasks' = (tasks \ {t}) \cup
              {[kind |-> "accountsChanged",
                waiting |-> {Fetch(c, "*", FALSE) : c \in InitKeys}]}
        /\ last' = Op("accountsChangedFetch",
                      IF cfg_accounts = {} THEN DefaultKey ELSE "-", "-", 0, TRUE)
        /\ UNCHANGED <<updating, orphans, panels, countVars, remoteVars, fetchVars, awaitVars, sideVars>>

\* one awaited fetch of a task resolves; the last one lets the callback run on:
\* this.refreshLists(); this.updating = false
fetchDone(t, f, failed) ==
    /\ f \in t.waiting
    /\ failed \subseteq Fallible(f)
    /\ MergeFetch(f, failed)
    /\ IF t.waiting = {f}
       THEN /\ tasks' = tasks \ {t}
            /\ updating' = FALSE
       ELSE /\ tasks' = (tasks \ {t}) \cup {[t EXCEPT !.waiting = @ \ {f}]}
            /\ UNCHANGED updating
    /\ last' = FetchResult("fetchResolved", f, failed)
    /\ UNCHANGED <<orphans, appVars, panels, countVars, remoteVars, awaitVars, sideVars>>

fetchResolved ==
    \E t \in tasks : \E f \in t.waiting : \E failed \in SUBSET FeedURLs :
        fetchDone(t, f, failed)

\* one awaited fetch rejects: Promise.all and the callback reject with it, the
\* statements after the await never run, the other fetches keep running
fetchRejected ==
    \E t \in tasks : \E f \in t.waiting :
        /\ tasks' = tasks \ {t}
        /\ orphans' = orphans \cup (t.waiting \ {f})
        /\ last' = Op("fetchRejected", f.acct, f.url, 0, FALSE)
        /\ UNCHANGED <<updating, appVars, catalogVars, panels, countVars, remoteVars, fetchVars, awaitVars, sideVars>>

\* a fetch nobody awaits any more ends, merging what it got
orphanDone ==
    \E f \in orphans : \E ok \in BOOLEAN : \E failed \in SUBSET Fallible(f) :
        /\ orphans' = orphans \ {f}
        /\ IF ok
           THEN /\ MergeFetch(f, failed)
                /\ last' = FetchResult("orphanDone", f, failed)
           ELSE /\ failed = {}
                /\ UNCHANGED <<catalogVars, fetchVars, awaitVars, sideVars>>
                /\ last' = Op("orphanDone", f.acct, f.url, 0, FALSE)
        /\ UNCHANGED <<updating, tasks, appVars, panels, countVars, remoteVars, awaitVars, sideVars>>

\* a feed publishes an article
publish(i) ==
    /\ i \notin upstream
    /\ upstream' = upstream \cup {i}
    /\ last' = Op("publish", "-", FeedOf(i), i, TRUE)
    /\ UNCHANGED <<validator, appVars, guardVars, catalogVars, panels, countVars, remoteVars,
                   awaitVars, sideVars>>

rss_select(account) ==
    /\ current_account' = account
    /\ current_feed' = Undefined
    /\ last' = Op("rss_select", account, "-", 0, TRUE)
    /\ UNCHANGED <<cfg_accounts, collections, guardVars, catalogVars, panels, countVars,
                   remoteVars, fetchVars, awaitVars, sideVars>>

rss_articles(feed) ==
    /\ current_feed' = feed
    /\ last' = Op("rss_articles", currCollection, feed, 0, TRUE)
    /\ UNCHANGED <<cfg_accounts, collections, current_account, guardVars,
                   catalogVars, panels, countVars, remoteVars, fetchVars, awaitVars, sideVars>>

(***************************************************************************)
(* Collection: catalog, favorites, commit (modelled from the specification)*)
(***************************************************************************)
\* times are counted in units of 100 s, so that 180 days of milliseconds fit
\* the integers of the model checker: 86400 * 1000 ms are 864 units
MsPerDay == (86400 * 1000) \div (100 * 1000)

\* publish date of an article, relative to now
Date(i) == 0 - AgeDays(i) * MsPerDay

IdsOf(url) == {i \in Articles : FeedOf(i) = url}
Present(c) == {i \in Articles : abstracts[c][i].present}

RECURSIVE SortByDateDesc(_)
SortByDateDesc(S) ==
    IF S = {} THEN <<>>
    ELSE LET m == CHOOSE x \in S : \A y \in S : Date(x) >= Date(y)
         IN <<m>> \o SortByDateDesc(S \ {m})

\* getArticles(feedURL | '<unread>')
getArticles(c, feed) ==
    IF feed = Unread
    THEN SortByDateDesc({i \in Present(c) : ~abstracts[c][i].read})
    ELSE SortByDateDesc({i \in Present(c) : FeedOf(i) = feed})

Range(q) == {q[k] : k \in 1..Len(q)}

\* a commit() that starts a flush also when nothing is pending
commit_flushesempty(c, d) ==
    /\ d \in commits[c] \/ Cardinality(commits[c]) < MaxCommits
    /\ commits' = [commits EXCEPT ![c] = @ \cup {d}]
    /\ dirty' = [dirty EXCEPT ![c] = {}]

\* commit(): the pending set d is taken as the snapshot of a flush in flight;
\* with nothing pending it is a no-op
commit(c, d) ==
    IF d = {}
    THEN UNCHANGED <<dirty, commits>>
    ELSE /\ d \in commits[c] \/ Cardinality(commits[c]) < MaxCommits
         /\ commits' = [commits EXCEPT ![c] = @ \cup {d}]
         /\ dirty' = [dirty EXCEPT ![c] = {}]

\* updateAbstract(id, abstract) for every id of ids, then commit()
updateAbstracts(c, cat, ids) ==
    /\ abstracts' = [abstracts EXCEPT ![c] = cat]
    /\ commit(c, dirty[c] \cup ids)

\* addToFavorites(id) / removeFromFavorites(id): flag and list in one step
setFavorite(c, id, on) ==
    IF abstracts[c][id].present
    THEN /\ favorites' = [favorites EXCEPT ![c] = IF on THEN @ \cup {id} ELSE @ \ {id}]
         /\ updateAbstracts(c, [abstracts[c] EXCEPT ![id].starred = on], {id})
    ELSE UNCHANGED <<abstracts, favorites, dirty, commits>>

\* delFeed(url): Summary, Abstracts, content and the favorites among them
delFeed(c, url) ==
    /\ feeds' = [feeds EXCEPT ![c] = @ \ {url}]
    /\ abstracts' = [abstracts EXCEPT ![c] =
          [i \in Articles |-> IF FeedOf(i) = url THEN Absent ELSE @[i]]]
    /\ stored' = [stored EXCEPT ![c] =
          [i \in Articles |-> IF FeedOf(i) = url THEN Absent ELSE @[i]]]
    /\ favorites' = [favorites EXCEPT ![c] = @ \ IdsOf(url)]
    /\ dirty' = [dirty EXCEPT ![c] = @ \ IdsOf(url)]
    /\ UNCHANGED commits

\* clean(): teardown of everything the collection persisted
clean(c) ==
    /\ feeds' = [feeds EXCEPT ![c] = {}]
    /\ abstracts' = [abstracts EXCEPT ![c] = [i \in Articles |-> Absent]]
    /\ stored' = [stored EXCEPT ![c] = [i \in Articles |-> Absent]]
    /\ favorites' = [favorites EXCEPT ![c] = {}]
    /\ dirty' = [dirty EXCEPT ![c] = {}]
    /\ commits' = [commits EXCEPT ![c] = {}]

\* the Abstracts a clean of the feeds fs with threshold maxAge removes
Expired(c, fs, maxAge) ==
    {i \in Present(c) :
        /\ FeedOf(i) \in fs
        /\ abstracts[c][i].read
        /\ ~abstracts[c][i].starred
        /\ 0 - Date(i) > maxAge}

\* cleanOldArticles(feedURL, maxAgeMs) / cleanAllOldArticles(maxAgeMs)
cleanOld(c, fs, maxAge) ==
    LET gone == Expired(c, fs, maxAge)
    IN /\ UNCHANGED <<feeds, favorites, commits>>
       /\ abstracts' = [abstracts EXCEPT ![c] =
             [i \in Articles |-> IF i \in gone THEN Absent ELSE @[i]]]
       /\ stored' = [stored EXCEPT ![c] =
             [i \in Articles |-> IF i \in gone THEN Absent ELSE @[i]]]
       /\ dirty' = [dirty EXCEPT ![c] = @ \ gone]

\* a flush in flight ends: the persisted copies of its ids become the in-memory
\* ones; when it fails nothing is written and its ids are pending again
flushDone(c, d, ok) ==
    /\ d \in commits[c]
    /\ ~Remote(c) \/ ~ok
    /\ commits' = [commits EXCEPT ![c] = @ \ {d}]
    /\ IF ok
       THEN /\ stored' = [stored EXCEPT ![c] =
                  [i \in Articles |-> IF i \in d THEN abstracts[c][i] ELSE @[i]]]
            /\ UNCHANGED dirty
       ELSE /\ dirty' = [dirty EXCEPT ![c] = @ \cup (d \cap Present(c))]
            /\ UNCHANGED stored
    /\ UNCHANGED <<feeds, abstracts, favorites, appVars, guardVars, panels, countVars,
                   last, remoteVars, fetchVars, awaitVars, sideVars>>

commitDone ==
    \E c \in collections : \E d \in commits[c] : \E ok \in BOOLEAN : flushDone(c, d, ok)

(***************************************************************************)
(* Remote backends: session, API call, flush with pushMutation (modelled   *)
(* from the specification, sections 4.2 and 4.3)                           *)
(***************************************************************************)
\* what the service answers to one API call
Responses == {"ok", "auth", "net"}

\* apiCall that issues the call with the token it has unless it never had one
apiCall_stale(c, id) ==
    /\ call.pc = "idle"
    /\ IF session[c] # "Unauthenticated"
       THEN /\ call' = [NoCall EXCEPT !.acct = c, !.id = id, !.pc = "calling", !.tries = 1]
            /\ UNCHANGED session
       ELSE /\ call' = [NoCall EXCEPT !.acct = c, !.id = id, !.pc = "authenticating"]
            /\ session' = [session EXCEPT ![c] = "Authenticating"]

\* an API call for id is issued for account c: at once when the session is
\* Authenticated, after an authentication otherwise
apiCall(c, id) ==
    /\ call.pc = "idle"
    /\ IF session[c] = "Authenticated"
       THEN /\ call' = [NoCall EXCEPT !.acct = c, !.id = id, !.pc = "calling", !.tries = 1]
            /\ UNCHANGED session
       ELSE /\ call' = [NoCall EXCEPT !.acct = c, !.id = id, !.pc = "authenticating"]
            /\ session' = [session EXCEPT ![c] = "Authenticating"]

\* the authentication attempt of the call in flight ends: with a session the
\* call is issued (again), without one the call ends with AuthError
authDone(ok) ==
    /\ call.pc = "authenticating"
    /\ IF ok
       THEN /\ session' = [session EXCEPT ![call.acct] = "Authenticated"]
            /\ call' = [call EXCEPT !.pc = "calling", !.tries = @ + 1]
       ELSE /\ call' = [call EXCEPT !.pc = "done", !.status = "AuthError"]
            /\ UNCHANGED session
    /\ UNCHANGED <<appVars, guardVars, catalogVars, panels, countVars, fetchVars, awaitVars, sideVars, last, pushing>>

\* response that re-authenticates after every auth error
response_retries(r) ==
    /\ call.pc = "calling"
    /\ IF r = "auth"
       THEN /\ session' = [session EXCEPT ![call.acct] = "Expired"]
            /\ call' = [call EXCEPT !.pc = "expired", !.autherrs = @ + 1]
       ELSE /\ call' = [call EXCEPT !.pc = "done",
                                    !.status = IF r = "ok" THEN "ok" ELSE "NetworkError"]
            /\ UNCHANGED session
    /\ UNCHANGED <<appVars, guardVars, catalogVars, panels, countVars, fetchVars, awaitVars, sideVars, last, pushing>>

\* the service answers the call in flight; an auth error expires the session,
\* and the second one of a call is fatal for it
response(r) ==
    /\ call.pc = "calling"
    /\ IF r = "auth"
       THEN /\ session' = [session EXCEPT ![call.acct] = "Expired"]
            /\ call' = IF call.reauths = 0
                       THEN [call EXCEPT !.pc = "expired", !.autherrs = @ + 1]
                       ELSE [call EXCEPT !.pc = "done", !.autherrs = @ + 1,
                                         !.status = "AuthError"]
       ELSE /\ call' = [call EXCEPT !.pc = "done",
                                    !.status = IF r = "ok" THEN "ok" ELSE "NetworkError"]
            /\ UNCHANGED session
    /\ UNCHANGED <<appVars, guardVars, catalogVars, panels, countVars, fetchVars, awaitVars, sideVars, last, pushing>>

\* the one re-authentication attempt of a call whose session expired
reauthenticate ==
    /\ call.pc = "expired"
    /\ session' = [session EXCEPT ![call.acct] = "Authenticating"]
    /\ call' = [call EXCEPT !.pc = "authenticating", !.reauths = @ + 1]
    /\ UNCHANGED <<appVars, guardVars, catalogVars, panels, countVars, fetchVars, awaitVars, sideVars, last, pushing>>

\* the flush of a remote collection persists the Abstracts of its snapshot d
\* locally and goes on to push them; from here on `pushing` holds the flush
commitLocal ==
    \E c \in collections : \E d \in commits[c] :
        /\ Remote(c)
        /\ pushing = NoFlush
        /\ stored' = [stored EXCEPT ![c] =
              [i \in Articles |-> IF i \in d THEN abstracts[c][i] ELSE @[i]]]
        /\ commits' = [commits EXCEPT ![c] = @ \ {d}]
        /\ pushing' = [acct |-> c, d |-> d, todo |-> d, failed |-> {}]
        /\ UNCHANGED <<feeds, abstracts, favorites, dirty, appVars, guardVars,
                       panels, countVars, fetchVars, awaitVars, sideVars, last, session, call>>

\* pushMutation(abstract) for one Abstract of the snapshot
pushMutation(i) ==
    /\ i \in pushing.todo
    /\ apiCall(pushing.acct, i)
    /\ UNCHANGED <<appVars, guardVars, catalogVars, panels, countVars, fetchVars, awaitVars, sideVars, last, pushing>>

\* the push of one Abstract has ended, pushed or failed
pushDone ==
    /\ call.pc = "done"
    /\ pushing' = [pushing EXCEPT !.todo = @ \ {call.id},
                                  !.failed = IF call.status = "ok" THEN @ ELSE @ \cup {call.id}]
    /\ call' = NoCall
    /\ UNCHANGED <<appVars, guardVars, catalogVars, panels, countVars, fetchVars, awaitVars, sideVars, last, session>>

\* commit() that clears the whole snapshot, pushed or not
commitReturn_clears ==
    /\ pushing # NoFlush
    /\ pushing.todo = {}
    /\ last' = Result("commit", pushing.acct,
                      IF pushing.failed = {} THEN "ok" ELSE "partial", pushing.failed)
    /\ pushing' = NoFlush
    /\ UNCHANGED <<feeds, abstracts, favorites, stored, dirty, commits, appVars, guardVars,
                   panels, countVars, fetchVars, awaitVars, sideVars, session, call>>

\* commit() of a remote collection returns: what was not pushed is pending
\* again, and the result tells whether anything failed
commitReturn ==
    /\ pushing # NoFlush
    /\ pushing.todo = {}
    /\ dirty' = [dirty EXCEPT ![pushing.acct] = @ \cup (pushing.failed \cap Present(pushing.acct))]
    /\ last' = Result("commit", pushing.acct,
                      IF pushing.failed = {} THEN "ok" ELSE "partial", pushing.failed)
    /\ pushing' = NoFlush
    /\ UNCHANGED <<feeds, abstracts, favorites, stored, commits, appVars, guardVars, panels,
                   countVars, fetchVars, awaitVars, sideVars, session, call>>

(***************************************************************************)
(* App: the handlers that read and change the catalog                      *)
(***************************************************************************)
\* currArticles falling back to the unread list when no feed is selected
currArticles_unreadbydefault ==
    getArticles(currCollection, IF current_feed = Undefined THEN Unread ELSE current_feed)

currArticles == IF current_feed = Undefined THEN <<>> ELSE getArticles(currCollection, current_feed)
currFavorites == favorites[currCollection]

frame == <<appVars, guardVars, countVars, last, remoteVars, fetchVars, awaitVars, sideVars>>

\* rss_mark_read that writes the Abstract and never calls updateAbstract
rss_mark_read_nocommit(article) ==
    /\ abstracts[currCollection][article].present
    /\ abstracts' = [abstracts EXCEPT ![currCollection][article].read = TRUE]
    /\ UNCHANGED <<feeds, favorites, stored, dirty, commits, panels, frame>>

\* rss_mark_read that passes the Abstract on as it is
rss_mark_read_unset(article) ==
    /\ abstracts[currCollection][article].present
    /\ updateAbstracts(currCollection, abstracts[currCollection], {article})
    /\ UNCHANGED <<feeds, favorites, stored, panels, frame>>

rss_mark_read(article) ==
    /\ abstracts[currCollection][article].present
    /\ updateAbstracts(currCollection,
                       [abstracts[currCollection] EXCEPT ![article].read = TRUE], {article})
    /\ UNCHANGED <<feeds, favorites, stored, panels, frame>>

\* rss_mark_unread that writes the Abstract and never calls updateAbstract
rss_mark_unread_nocommit(article) ==
    /\ abstracts[currCollection][article].present
    /\ abstracts' = [abstracts EXCEPT ![currCollection][article].read = FALSE]
    /\ UNCHANGED <<feeds, favorites, stored, dirty, commits, panels, frame>>

rss_mark_unread(article) ==
    /\ abstracts[currCollection][article].present
    /\ updateAbstracts(currCollection,
                       [abstracts[currCollection] EXCEPT ![article].read = FALSE], {article})
    /\ UNCHANGED <<feeds, favorites, stored, panels, frame>>

\* a commit() of what was pending, and then the updates of the Abstracts of q
markAllRead_commitfirst(c, q) ==
    /\ abstracts' = [abstracts EXCEPT ![c] =
          [i \in Articles |->
              IF i \in Range(q) THEN [abstracts[c][i] EXCEPT !.read = TRUE]
              ELSE abstracts[c][i]]]
    /\ IF dirty[c] = {}
       THEN UNCHANGED commits
       ELSE /\ dirty[c] \in commits[c] \/ Cardinality(commits[c]) < MaxCommits
            /\ commits' = [commits EXCEPT ![c] = @ \cup {dirty[c]}]
    /\ dirty' = [dirty EXCEPT ![c] = Range(q)]

\* mark every Abstract of the sequence q read, then one commit()
markAllRead(c, q) ==
    updateAbstracts(c, [i \in Articles |->
                           IF i \in Range(q) THEN [abstracts[c][i] EXCEPT !.read = TRUE]
                           ELSE abstracts[c][i]],
                    Range(q))

rss_mark_all_read(feed) ==
    LET q == IF feed # Undefined THEN getArticles(currCollection, feed) ELSE currArticles
    IN /\ markAllRead(currCollection, q)
       /\ UNCHANGED <<feeds, favorites, stored, panels, frame>>

rss_mark_account_read(account) ==
    LET collection == IF account # Undefined THEN account ELSE currCollection
        q == getArticles(collection, Unread)
    IN /\ markAllRead(collection, q)
       /\ UNCHANGED <<feeds, favorites, stored, panels, frame>>

\* rss_add_to_favorites that sets the flag itself and calls updateAbstract
rss_add_to_favorites_flagonly(article) ==
    /\ abstracts[currCollection][article].present
    /\ updateAbstracts(currCollection,
                       [abstracts[currCollection] EXCEPT ![article].starred = TRUE], {article})
    /\ UNCHANGED <<feeds, favorites, stored, panels, frame>>

rss_add_to_favorites(article) ==
    /\ abstracts[currCollection][article].present
    /\ setFavorite(currCollection, article, TRUE)
    /\ UNCHANGED <<feeds, stored, panels, frame>>

rss_remove_from_favorites(item) ==
    /\ item \in currFavorites
    /\ setFavorite(currCollection, item, FALSE)
    /\ UNCHANGED <<feeds, stored, panels, frame>>

\* what showInputBox returns: a URL, the empty string, or undefined when the
\* box was cancelled
Inputs == FeedURLs \cup {"", Undefined}

\* addFeed(url); ok tells whether the validation fetch and its parse succeeded:
\* the feed is inserted and persisted with what the fetch brought, or the call
\* fails with InvalidFeed
addFeed(c, url, ok) ==
    IF ok
    THEN /\ feeds' = [feeds EXCEPT ![c] = @ \cup {url}]
         /\ abstracts' = [abstracts EXCEPT ![c] = Merged(@, {url})]
         /\ stored' = [stored EXCEPT ![c] = Merged(@, {url})]
         /\ validator' = [validator EXCEPT ![c][url] = Version(url)]
         /\ last' = [Result("addFeed", c, "ok", {}) EXCEPT !.feed = url]
         /\ UNCHANGED <<favorites, dirty, commits, upstream>>
    ELSE /\ last' = [Result("addFeed", c, "InvalidFeed", {url}) EXCEPT !.feed = url]
         /\ UNCHANGED <<catalogVars, fetchVars>>

\* rss_add_feed without the return of line 576
rss_add_feed_unchecked(feed, ok) ==
    /\ addFeed(currCollection, feed, ok)
    /\ UNCHANGED <<appVars, guardVars, panels, countVars, remoteVars, awaitVars, sideVars>>

\* rss_add_feed, the input box answered with feed
rss_add_feed(feed, ok) ==
    /\ IF feed = Undefined \/ feed = ""
       THEN /\ last' = Op("rss_add_feed", currCollection, "-", 0, FALSE)
            /\ UNCHANGED <<catalogVars, fetchVars>>
       ELSE addFeed(currCollection, feed, ok)
    /\ UNCHANGED <<appVars, guardVars, panels, countVars, remoteVars, awaitVars, sideVars>>

\* rss_remove_feed that calls clean() of the collection instead of delFeed
rss_remove_feed_clean(feed) ==
    /\ feed \in feeds[currCollection]
    /\ clean(currCollection)
    /\ UNCHANGED <<panels, frame>>

rss_remove_feed(feed) ==
    /\ feed \in feeds[currCollection]
    /\ delFeed(currCollection, feed)
    /\ UNCHANGED <<panels, frame>>

\* the periods offered, in days: t = [1 * 30, 2 * 30, 3 * 30, 6 * 30]
ExpireDays == <<1 * 30, 2 * 30, 3 * 30, 6 * 30>>

\* selectExpire with t[...] * 86400, seconds instead of milliseconds
selectExpire_seconds(time) ==
    IF time = 0 THEN 0 ELSE (ExpireDays[time] * MsPerDay) \div 1000

\* selectExpire: time is the index of the period picked, 0 when none is;
\* 0 stands for undefined
selectExpire(time) ==
    IF time = 0 THEN 0 ELSE ExpireDays[time] * MsPerDay

rss_clean_old_articles(feed, time) ==
    LET expire == selectExpire(time)
    IN /\ feed \in feeds[currCollection]
       /\ IF expire = 0
          THEN UNCHANGED catalogVars
          ELSE cleanOld(currCollection, {feed}, expire)
       /\ UNCHANGED <<panels, frame>>

rss_clean_all_old_articles(account, time) ==
    LET expire == selectExpire(time)
    IN /\ IF expire = 0
          THEN UNCHANGED catalogVars
          ELSE cleanOld(account, FeedURLs, expire)
       /\ UNCHANGED <<panels, frame>>

readFrame == <<appVars, guardVars, countVars, last, remoteVars, fetchVars, removing, listing, sideVars>>

Read(acct, id) == [acct |-> acct, id |-> id]

\* rss_read(abstract) up to `await this.currCollection().getContent(abstract.id)`
rss_read(abstract) ==
    /\ abstracts[currCollection][abstract].present
    /\ Cardinality(panels) + Cardinality(reading) < MaxPanels
    /\ reading' = reading \cup {Read(currCollection, abstract)}
    /\ UNCHANGED <<catalogVars, panels, readFrame>>

\* the part of rss_read after the await, r the call that resumes: the handler
\* sets abstract.read on the Abstract it holds (line 421), opens the panel and
\* calls updateAbstract(abstract.id, abstract).commit() of the collection that
\* is current now (line 464); a collection that has no Abstract of that id
\* marks nothing and commits what is pending
openArticle(r) ==
    LET held == abstracts[r.acct][r.id].present
    IN /\ panels' = panels \cup {r.id}
       /\ abstracts' = IF held THEN [abstracts EXCEPT ![r.acct][r.id].read = TRUE]
                       ELSE abstracts
       /\ IF held /\ currCollection = r.acct
          THEN commit(r.acct, dirty[r.acct] \cup {r.id})
          ELSE commit(currCollection, dirty[currCollection])
       /\ UNCHANGED <<feeds, favorites, stored>>

\* rss_read that goes on after a rejected getContent
contentReturned_anyway(r, content) ==
    /\ r \in reading
    /\ reading' = reading \ {r}
    /\ openArticle(r)
    /\ last' = Op("rss_read", r.acct, "-", r.id, content)
    /\ UNCHANGED <<appVars, guardVars, countVars, remoteVars, fetchVars, removing, listing,
                   sideVars>>

\* getContent of the suspended rss_read r ends; content tells whether it
\* returned the body or rejected
contentReturned(r, content) ==
    /\ r \in reading
    /\ reading' = reading \ {r}
    /\ IF content
       THEN openArticle(r)
       ELSE UNCHANGED <<catalogVars, panels>>
    /\ last' = Op("rss_read", r.acct, "-", r.id, content)
    /\ UNCHANGED <<appVars, guardVars, countVars, remoteVars, fetchVars, removing, listing,
                   sideVars>>

\* the panel of abstract posts 'star'
panelStar(abstract) ==
    /\ abstract \in panels
    /\ setFavorite(currCollection, abstract, TRUE)
    /\ UNCHANGED <<feeds, stored, panels, frame>>

\* the panel of abstract posts 'next': the panel is disposed and the first
\* unread Abstract is read in its place
panelNext(abstract) ==
    LET unread == getArticles(currCollection, Unread)
    IN /\ abstract \in panels
       /\ IF Len(unread) > 0
          THEN /\ panels' = panels \ {abstract}
               /\ reading' = reading \cup {Read(currCollection, unread[1])}
               /\ UNCHANGED <<catalogVars, readFrame>>
          ELSE UNCHANGED <<catalogVars, panels, frame>>

removeFrame == <<current_account, current_feed, guardVars, panels, countVars, remoteVars,
                 fetchVars, reading, listing, sideVars>>

\* removeAccount that drops the key before it tears the storage down
removeAccount_dropfirst(key) ==
    IF key \in collections
    THEN /\ collections' = collections \ {key}
         /\ cfg_accounts' = cfg_accounts \ {key}
         /\ removing' = removing \cup {key}
         /\ UNCHANGED catalogVars
    ELSE UNCHANGED <<cfg_accounts, collections, catalogVars, removing>>

\* removeAccount(key) up to the end of `await collection.clean()`
removeAccount(key) ==
    IF key \in collections
    THEN /\ clean(key)
         /\ removing' = removing \cup {key}
         /\ UNCHANGED <<cfg_accounts, collections>>
    ELSE UNCHANGED <<cfg_accounts, collections, catalogVars, removing>>

\* rss_del_account(account), the quick pick answered with confirm
rss_del_account(account, confirm) ==
    /\ IF confirm # "yes"
       THEN UNCHANGED <<cfg_accounts, collections, catalogVars, removing>>
       ELSE removeAccount(account)
    /\ last' = Op("rss_del_account", account, "-", 0, confirm = "yes")
    /\ UNCHANGED removeFrame

\* removeAccount(key) after the await: delete this.collections[key], and the
\* configuration is updated without the key
accountRemoved(key) ==
    /\ key \in removing
    /\ removing' = removing \ {key}
    /\ collections' = collections \ {key}
    /\ cfg_accounts' = cfg_accounts \ {key}
    /\ last' = Op("removeAccount", key, "-", 0, TRUE)
    /\ UNCHANGED <<catalogVars, removeFrame>>

\* the window is reloaded: a new App, its Collections initialised from the store
restart ==
    /\ abstracts' = [c \in Accounts |-> Reloaded(c)]
    /\ favorites' = [c \in Accounts |->
          {i \in Articles : Reloaded(c)[i].present /\ Reloaded(c)[i].starred}]
    /\ dirty' = [c \in Accounts |-> {}]
    /\ commits' = [c \in Accounts |-> {}]
    /\ updating' = FALSE
    /\ tasks' = {}
    /\ orphans' = {}
    /\ panels' = {}
    /\ current_feed' = Undefined
    /\ current_account' = CHOOSE k \in collections : TRUE
    /\ session' = NoSession
    /\ call' = NoCall
    /\ pushing' = NoFlush
    /\ reading' = {}
    /\ removing' = {}
    /\ listing' = NoListing
    /\ fanout' = NoFanout
    /\ briefCache' = NoBriefs
    /\ generatingArticles' = {}
    /\ gens' = {}
    /\ posted' = NoMessages
    /\ UNCHANGED <<cfg_accounts, collections, feeds, stored, countVars, last, fetchVars, configVars>>

(***************************************************************************)
(* Remote backends: the paged listing of a fetch (modelled from the        *)
(* specification, section 4.3)                                             *)
(***************************************************************************)
\* a fetch of the remote collection c requests the first page of the listing
listStart(c) ==
    /\ Remote(c)
    /\ listing = NoListing
    /\ listing' = [acct |-> c, pages |-> 0, items |-> 0, pc |-> "requesting"]
    /\ UNCHANGED <<appVars, guardVars, catalogVars, panels, countVars, last, remoteVars,
                   fetchVars, reading, removing, sideVars>>

\* a listing that asks for the next page whenever the service reports more
pageReturned_nomax(k, more) ==
    /\ listing.pc = "requesting"
    /\ listing' = [listing EXCEPT !.pages = @ + 1, !.items = @ + k,
                                  !.pc = IF k > 0 /\ more THEN "requesting" ELSE "done"]
    /\ UNCHANGED <<appVars, guardVars, catalogVars, panels, countVars, last, remoteVars,
                   fetchVars, reading, removing, sideVars>>

\* the service answers a page request with k items and tells whether there are
\* more; an empty page is a report of no more items. The next page is requested
\* unless the service reported none or the maximum item count is reached
pageReturned(k, more) ==
    /\ listing.pc = "requesting"
    /\ listing' = [listing EXCEPT !.pages = @ + 1, !.items = @ + k,
                                  !.pc = IF k > 0 /\ more /\ listing.items + k < MaxItems
                                         THEN "requesting" ELSE "done"]
    /\ UNCHANGED <<appVars, guardVars, catalogVars, panels, countVars, last, remoteVars,
                   fetchVars, reading, removing, sideVars>>

\* the listing has ended and its items are handed to the merge
listDone ==
    /\ listing.pc = "done"
    /\ listing' = NoListing
    /\ UNCHANGED <<appVars, guardVars, catalogVars, panels, countVars, last, remoteVars,
                   fetchVars, reading, removing, sideVars>>

(***************************************************************************)
(* App: the accounts of the configuration change                           *)
(***************************************************************************)
\* the listener of onDidChangeConfiguration for a change of rss.accounts, up
\* to the call of withProgress: nothing when a refresh holds the flag
onAccountsChanged ==
    IF updating
    THEN UNCHANGED <<guardVars, countVars>>
    ELSE /\ nIdle < MaxRequests
         /\ nIdle' = nIdle + 1
         /\ updating' = TRUE
         /\ tasks' = tasks \cup {[kind |-> "initAccounts", waiting |-> {}]}
         /\ nRounds' = nRounds + 1
         /\ UNCHANGED orphans

reloadFrame == <<catalogVars, panels, remoteVars, fetchVars, sideVars>>

\* the user edits rss.accounts in the settings: keys are the accounts now
\* configured; the listener runs
accountsEdited(keys) ==
    /\ keys # cfg_accounts
    /\ cfg_accounts' = keys
    /\ onAccountsChanged
    /\ last' = Op("accountsEdited", "-", "-", 0, ~updating)
    /\ UNCHANGED <<collections, current_account, current_feed, awaitVars, reloadFrame>>

\* removeAccount(key) after the await: delete this.collections[key], the
\* configuration is updated without the key, and the listener runs
accountRemovedNotified(key) ==
    /\ key \in removing
    /\ removing' = removing \ {key}
    /\ collections' = collections \ {key}
    /\ cfg_accounts' = cfg_accounts \ {key}
    /\ onAccountsChanged
    /\ last' = Op("removeAccount", key, "-", 0, ~updating)
    /\ UNCHANGED <<current_account, current_feed, reading, listing, reloadFrame>>

(***************************************************************************)
(* LocalFetch: the per-feed fetches inside one fetchAll (modelled from the *)
(* specification, sections 4.3 and 6)                                      *)
(***************************************************************************)
fanFrame == <<appVars, guardVars, panels, countVars, last, remoteVars, awaitVars,
              configVars, briefVars>>

\* fetchAll of the local collection c begins: every known feed is to be fetched
fanStart(c) ==
    /\ ~Remote(c)
    /\ fanout = NoFanout
    /\ feeds[c] # {}
    /\ fanout' = [NoFanout EXCEPT !.acct = c, !.todo = feeds[c]]
    /\ UNCHANGED <<catalogVars, fetchVars, fanFrame>>

\* a fetch of a feed that starts whatever number is in flight
fanLaunch_unbounded(url) ==
    /\ url \in fanout.todo
    /\ fanout' = [fanout EXCEPT !.todo = @ \ {url}, !.inflight = @ \cup {url},
                                !.attempts[url] = @ + 1]
    /\ UNCHANGED <<catalogVars, fetchVars, fanFrame>>

\* the fetch of the next feed starts when fewer than Ceiling are in flight
fanLaunch(url) ==
    /\ url \in fanout.todo
    /\ Cardinality(fanout.inflight) < Ceiling
    /\ fanout' = [fanout EXCEPT !.todo = @ \ {url}, !.inflight = @ \cup {url},
                                !.attempts[url] = @ + 1]
    /\ UNCHANGED <<catalogVars, fetchVars, fanFrame>>

\* the fetch of url ends; one that failed is skipped, the others go on
fanComplete(url, ok) ==
    /\ url \in fanout.inflight
    /\ fanout' = [fanout EXCEPT !.inflight = @ \ {url},
                                !.ready = IF ok THEN @ \cup {url} ELSE @]
    /\ UNCHANGED <<catalogVars, fetchVars, fanFrame>>

\* a merge that begins while another one is writing
mergeBegin_unserialized(url) ==
    /\ url \in fanout.ready
    /\ fanout' = [fanout EXCEPT !.ready = @ \ {url}, !.merging = @ \cup {url}]
    /\ UNCHANGED <<catalogVars, fetchVars, fanFrame>>

\* the merge of what the fetch of url brought begins: merges take their turn
mergeBegin(url) ==
    /\ url \in fanout.ready
    /\ fanout.merging = {}
    /\ fanout' = [fanout EXCEPT !.ready = @ \ {url}, !.merging = @ \cup {url}]
    /\ UNCHANGED <<catalogVars, fetchVars, fanFrame>>

\* the merge of url writes its Summary, in memory and in the store
mergeEnd(url) ==
    /\ url \in fanout.merging
    /\ MergeFeeds(fanout.acct, {url})
    /\ fanout' = [fanout EXCEPT !.merging = @ \ {url}]
    /\ UNCHANGED fanFrame

\* every feed was attempted and every merge has ended: fetchAll resolves
fanDone ==
    /\ fanout.acct # "-"
    /\ fanout.todo = {} /\ fanout.inflight = {} /\ fanout.ready = {} /\ fanout.merging = {}
    /\ fanout' = NoFanout
    /\ UNCHANGED <<catalogVars, fetchVars, fanFrame>>

(***************************************************************************)
(* AIConfigManager: API key, settings, validation                          *)
(***************************************************************************)
RECURSIVE TrimStart(_)
TrimStart(t) ==
    IF t # <<>> /\ Head(t) \in Whitespace THEN TrimStart(Tail(t)) ELSE t

RECURSIVE TrimEnd(_)
TrimEnd(t) ==
    IF t # <<>> /\ t[Len(t)] \in Whitespace THEN TrimEnd(SubSeq(t, 1, Len(t) - 1)) ELSE t

\* String.prototype.trim
Trim(t) == TrimEnd(TrimStart(t))

\* `x` as a condition: neither undefined nor the empty string
Truthy(t) == t # NoText /\ t # <<>>
\* `x && x.trim() !== ''`
NonBlank(t) == Truthy(t) /\ Trim(t) # <<>>

\* deleteApiKey()
deleteApiKey == secret' = NoSecret

\* setApiKey(apiKey): a blank key deletes the stored one
setApiKey(apiKey) ==
    IF ~Truthy(apiKey) \/ Trim(apiKey) = <<>>
    THEN deleteApiKey
    ELSE secret' = apiKey

\* getApiKey taking from the settings whatever is not the empty string
getApiKey_untrimmed(key) ==
    IF NonBlank(secret)
    THEN /\ key = secret
         /\ UNCHANGED configVars
    ELSE IF Truthy(settings.key)
         THEN /\ secret' = settings.key
              /\ settings' = [settings EXCEPT !.key = <<>>]
              /\ key = settings.key
         ELSE /\ key = NoText
              /\ UNCHANGED configVars

\* getApiKey() returns key: the stored key, else the key of the settings,
\* which moves to SecretStorage
getApiKey(key) ==
    IF NonBlank(secret)
    THEN /\ key = secret
         /\ UNCHANGED configVars
    ELSE IF NonBlank(settings.key)
         THEN /\ setApiKey(settings.key)
              /\ settings' = [settings EXCEPT !.key = <<>>]
              /\ key = settings.key
         ELSE /\ key = NoText
              /\ UNCHANGED configVars

isEnabled == settings.enabled
getEndpoint == IF NonBlank(settings.endpoint) THEN settings.endpoint ELSE NoText
getModel == IF NonBlank(settings.model) THEN settings.model ELSE NoText

Valid == [valid |-> TRUE, error |-> Undefined]
Invalid(error) == [valid |-> FALSE, error |-> error]
Validations ==
    {Valid} \cup {Invalid(e) : e \in {"AI brief feature is not enabled",
                                      "AI service endpoint is not configured",
                                      "API key is not configured",
                                      "AI model is not configured"}}

\* validateConfig that asks for the model before the key
validateConfig_modelfirst(v) ==
    IF ~isEnabled
    THEN v = Invalid("AI brief feature is not enabled") /\ UNCHANGED configVars
    ELSE IF ~Truthy(getEndpoint)
    THEN v = Invalid("AI service endpoint is not configured") /\ UNCHANGED configVars
    ELSE IF ~Truthy(getModel)
    THEN v = Invalid("AI model is not configured") /\ UNCHANGED configVars
    ELSE \E apiKey \in Keys :
            /\ getApiKey(apiKey)
            /\ v = IF ~Truthy(apiKey) THEN Invalid("API key is not configured") ELSE Valid

\* validateConfig() returns v
validateConfig(v) ==
    IF ~isEnabled
    THEN v = Invalid("AI brief feature is not enabled") /\ UNCHANGED configVars
    ELSE IF ~Truthy(getEndpoint)
    THEN v = Invalid("AI service endpoint is not configured") /\ UNCHANGED configVars
    ELSE \E apiKey \in Keys :
            /\ getApiKey(apiKey)
            /\ v = IF ~Truthy(apiKey) THEN Invalid("API key is not configured")
                   ELSE IF ~Truthy(getModel) THEN Invalid("AI model is not configured")
                   ELSE Valid

configFrame == <<appVars, guardVars, catalogVars, panels, countVars, remoteVars, fetchVars,
                 awaitVars, fanout>>
briefFrame == <<configFrame, last>>

\* the user edits a setting of the extension
configure(field, value) ==
    /\ settings' = [settings EXCEPT ![field] = value]
    /\ UNCHANGED <<secret, briefVars, briefFrame>>

\* calls of the methods of the configuration manager
callGetApiKey ==
    \E key \in Keys :
        /\ getApiKey(key)
        /\ last' = Returned("getApiKey", key)
        /\ UNCHANGED <<briefVars, configFrame>>

callSetApiKey(apiKey) ==
    /\ setApiKey(apiKey)
    /\ last' = Returned("setApiKey", apiKey)
    /\ UNCHANGED <<settings, briefVars, configFrame>>

\* rss_set_ai_api_key: promptForApiKey, whose input box accepts no blank text;
\* undefined is the cancelled prompt
rss_set_ai_api_key(apiKey) ==
    /\ apiKey = NoText \/ NonBlank(apiKey)
    /\ IF Truthy(apiKey) THEN setApiKey(apiKey) ELSE UNCHANGED secret
    /\ last' = Op("rss_set_ai_api_key", "-", "-", 0, Truthy(apiKey))
    /\ UNCHANGED <<settings, briefVars, configFrame>>

(***************************************************************************)
(* AIBriefPanel: generateBrief                                             *)
(***************************************************************************)
Generation(panel, id, pc, acc) == [panel |-> panel, id |-> id, pc |-> pc, acc |-> acc]
Post(panel, msgs) == posted' = [posted EXCEPT ![panel] = @ (+) SetToBag(msgs)]

RECURSIVE Copies(_, _, _)
Copies(log, type, ids) ==
    IF ids = {} THEN 0
    ELSE LET i == CHOOSE x \in ids : TRUE
         IN CopiesIn(Msg(type, i), log) + Copies(log, type, ids \ {i})

\* the messages of a type posted between the panel and the extension
Sent(panel, type) == Copies(posted[panel], type, Articles)

RECURSIVE Requests(_)
\* the generateBrief messages the panels ps have sent
Requests(ps) ==
    IF ps = {} THEN 0
    ELSE LET p == CHOOSE x \in ps : TRUE
         IN Sent(p, "generateBrief") + Requests(ps \ {p})

\* a generation returns: finally { generatingArticles.delete(id) }
Exit(g) ==
    /\ gens' = gens \ {g}
    /\ generatingArticles' = generatingArticles \ {g.id}

\* `if (cached)`: an entry that is not the empty string
Cached(id) == briefCache[id] # NoBrief /\ briefCache[id] # <<>>

\* generateBrief up to its first await, without the test of generatingArticles
generateBrief_unguarded(panel, id) ==
    /\ Requests(Panels) < MaxBriefs
    /\ IF Cached(id)
       THEN /\ Post(panel, {Msg("generateBrief", id), Msg("briefCached", id)})
            /\ UNCHANGED <<gens, generatingArticles>>
       ELSE /\ Post(panel, {Msg("generateBrief", id)})
            /\ generatingArticles' = generatingArticles \cup {id}
            /\ gens' = gens \cup {Generation(panel, id, "validateConfig", <<>>)}
    /\ UNCHANGED <<briefCache, configVars, briefFrame>>

\* the panel's webview posts 'generateBrief': handleMessage, generateBrief up
\* to its first await
generateBrief(panel, id) ==
    /\ Requests(Panels) < MaxBriefs
    /\ IF Cached(id)
       THEN /\ Post(panel, {Msg("generateBrief", id), Msg("briefCached", id)})
            /\ UNCHANGED <<gens, generatingArticles>>
       ELSE IF id \in generatingArticles
       THEN /\ Post(panel, {Msg("generateBrief", id)})
            /\ UNCHANGED <<gens, generatingArticles>>
       ELSE /\ Post(panel, {Msg("generateBrief", id)})
            /\ generatingArticles' = generatingArticles \cup {id}
            /\ gens' = gens \cup {Generation(panel, id, "validateConfig", <<>>)}
    /\ UNCHANGED <<briefCache, configVars, briefFrame>>

\* `await this.configManager.validateConfig()` returns
briefValidated(g) ==
    /\ g.pc = "validateConfig"
    /\ \E v \in Validations :
          /\ validateConfig(v)
          /\ IF ~v.valid
             THEN /\ Post(g.panel, {Msg("briefError", g.id)})
                  /\ Exit(g)
             ELSE /\ gens' = (gens \ {g}) \cup {[g EXCEPT !.pc = "getApiKey"]}
                  /\ UNCHANGED <<generatingArticles, posted>>
    /\ UNCHANGED <<briefCache, briefFrame>>

\* `await this.configManager.getApiKey()` returns; endpoint and model are read;
\* with all three the service is created and getContent() is called
briefConfigured(g) ==
    /\ g.pc = "getApiKey"
    /\ \E apiKey \in Keys :
          /\ getApiKey(apiKey)
          /\ IF ~Truthy(apiKey) \/ ~Truthy(getEndpoint) \/ ~Truthy(getModel)
             THEN /\ Post(g.panel, {Msg("briefError", g.id)})
                  /\ Exit(g)
             ELSE /\ gens' = (gens \ {g}) \cup {[g EXCEPT !.pc = "getContent"]}
                  /\ UNCHANGED <<generatingArticles, posted>>
    /\ UNCHANGED <<briefCache, briefFrame>>

\* `await getContent()` returns and streamBrief is called, or it throws
briefContent(g, ok) ==
    /\ g.pc = "getContent"
    /\ IF ok
       THEN /\ gens' = (gens \ {g}) \cup {[g EXCEPT !.pc = "streamBrief"]}
            /\ UNCHANGED <<generatingArticles, posted>>
       ELSE /\ Post(g.panel, {Msg("briefError", g.id)})
            /\ Exit(g)
    /\ UNCHANGED <<briefCache, configVars, briefFrame>>

\* the stream yields a chunk
briefChunk(g, chunk) ==
    /\ g.pc = "streamBrief"
    /\ Len(g.acc) < MaxChunks
    /\ gens' = (gens \ {g}) \cup {[g EXCEPT !.acc = @ \o <<chunk>>]}
    /\ Post(g.panel, {Chunk(g.id, renderMarkdown(g.acc \o <<chunk>>, FALSE))})
    /\ UNCHANGED <<generatingArticles, briefCache, configVars, briefFrame>>

\* a stream's end whose final rendering throws after briefComplete was posted
briefComplete_thenerror(g) ==
    /\ g.pc = "streamBrief"
    /\ briefCache' = [briefCache EXCEPT ![g.id] = g.acc]
    /\ Post(g.panel, {Msg("briefComplete", g.id), Msg("briefError", g.id)})
    /\ Exit(g)
    /\ UNCHANGED <<configVars, briefFrame>>

\* the stream ends: the brief is cached and briefComplete posted
briefComplete(g) ==
    /\ g.pc = "streamBrief"
    /\ briefCache' = [briefCache EXCEPT ![g.id] = g.acc]
    /\ Post(g.panel, {Msg("briefComplete", g.id)})
    /\ Exit(g)
    /\ UNCHANGED <<configVars, briefFrame>>

\* the stream throws: catch posts briefError
briefError(g) ==
    /\ g.pc = "streamBrief"
    /\ Post(g.panel, {Msg("briefError", g.id)})
    /\ Exit(g)
    /\ UNCHANGED <<briefCache, configVars, briefFrame>>

(***************************************************************************)
(* Specification of the refresh guard: two accounts, nothing fetched yet   *)
(***************************************************************************)
EmptyCatalog == [i \in Articles |-> Absent]

Init ==
    /\ cfg_accounts = Accounts
    /\ collections = Accounts
    /\ current_account = "A"
    /\ current_feed = Undefined
    /\ updating = FALSE
    /\ tasks = {}
    /\ orphans = {}
    /\ feeds = [c \in Accounts |-> FeedURLs]
    /\ abstracts = [c \in Accounts |-> EmptyCatalog]
    /\ favorites = [c \in Accounts |-> {}]
    /\ stored = [c \in Accounts |-> EmptyCatalog]
    /\ dirty = [c \in Accounts |-> {}]
    /\ commits = [c \in Accounts |-> {}]
    /\ panels = {}
    /\ nIdle = 0
    /\ nRounds = 0
    /\ last = Op("init", "-", "-", 0, TRUE)
    /\ session = NoSession
    /\ call = NoCall
    /\ pushing = NoFlush
    /\ reading = {}
    /\ removing = {}
    /\ listing = NoListing
    /\ fanout = NoFanout
    /\ secret = NoSecret
    /\ settings = NoSettings
    /\ briefCache = NoBriefs
    /\ generatingArticles = {}
    /\ gens = {}
    /\ posted = NoMessages
    /\ upstream = Articles
    /\ validator = [c \in Accounts |-> [url \in FeedURLs |-> NoValidator]]

Next ==
    \/ \E auto \in BOOLEAN : rss_refresh(auto)
    \/ \E a \in collections \cup {Undefined} : rss_refresh_account(a)
    \/ \E f \in FeedURLs \cup {Undefined} : rss_refresh_one(f)
    \/ accountsChanged
    \/ accountsChangedFetch
    \/ fetchResolved
    \/ fetchRejected
    \/ orphanDone
    \/ \E a \in collections : rss_select(a)
    \/ \E f \in FeedURLs \cup {Unread} : rss_articles(f)

Spec == Init /\ [][Next]_vars

(***************************************************************************)
(* Specification of fetching: one account, nothing fetched yet, the feeds  *)
(* publishing while the program runs                                       *)
(***************************************************************************)
InitFetch ==
    /\ cfg_accounts = {"A"}
    /\ collections = {"A"}
    /\ current_account = "A"
    /\ current_feed = Undefined
    /\ updating = FALSE
    /\ tasks = {}
    /\ orphans = {}
    /\ feeds = [c \in Accounts |-> IF c = "A" THEN {"f"} ELSE {}]
    /\ abstracts = [c \in Accounts |-> EmptyCatalog]
    /\ favorites = [c \in Accounts |-> {}]
    /\ stored = [c \in Accounts |-> EmptyCatalog]
    /\ dirty = [c \in Accounts |-> {}]
    /\ commits = [c \in Accounts |-> {}]
    /\ panels = {}
    /\ nIdle = 0
    /\ nRounds = 0
    /\ last = Op("init", "-", "-", 0, TRUE)
    /\ session = NoSession
    /\ call = NoCall
    /\ pushing = NoFlush
    /\ reading = {}
    /\ removing = {}
    /\ listing = NoListing
    /\ fanout = NoFanout
    /\ secret = NoSecret
    /\ settings = NoSettings
    /\ briefCache = NoBriefs
    /\ generatingArticles = {}
    /\ gens = {}
    /\ posted = NoMessages
    /\ upstream = {1}
    /\ validator = [c \in Accounts |-> [url \in FeedURLs |-> NoValidator]]

NextFetch ==
    \/ \E auto \in BOOLEAN : rss_refresh(auto)
    \/ \E f \in FeedURLs \cup {Undefined} : rss_refresh_one(f)
    \/ accountsChanged
    \/ accountsChangedFetch
    \/ fetchResolved
    \/ fetchRejected
    \/ \E i \in Articles : publish(i)
    \/ \E feed \in Inputs : \E ok \in BOOLEAN : rss_add_feed(feed, ok)

SpecFetch == InitFetch /\ [][NextFetch]_vars

(***************************************************************************)
(* Specification of the catalog: one account whose articles an earlier     *)
(* session fetched                                                         *)
(***************************************************************************)
FetchedCatalog == [i \in Articles |-> Fresh]

InitCatalog ==
    /\ cfg_accounts = {"A"}
    /\ collections = {"A"}
    /\ current_account = "A"
    /\ current_feed = Undefined
    /\ updating = FALSE
    /\ tasks = {}
    /\ orphans = {}
    /\ feeds = [c \in Accounts |-> IF c = "A" THEN FeedURLs ELSE {}]
    /\ abstracts = [c \in Accounts |-> IF c = "A" THEN FetchedCatalog ELSE EmptyCatalog]
    /\ favorites = [c \in Accounts |-> {}]
    /\ stored = [c \in Accounts |-> IF c = "A" THEN FetchedCatalog ELSE EmptyCatalog]
    /\ dirty = [c \in Accounts |-> {}]
    /\ commits = [c \in Accounts |-> {}]
    /\ panels = {}
    /\ nIdle = 0
    /\ nRounds = 0
    /\ last = Op("init", "-", "-", 0, TRUE)
    /\ session = NoSession
    /\ call = NoCall
    /\ pushing = NoFlush
    /\ reading = {}
    /\ removing = {}
    /\ listing = NoListing
    /\ fanout = NoFanout
    /\ secret = NoSecret
    /\ settings = NoSettings
    /\ briefCache = NoBriefs
    /\ generatingArticles = {}
    /\ gens = {}
    /\ posted = NoMessages
    /\ upstream = Articles
    /\ validator = [c \in Accounts |-> [url \in FeedURLs |->
          IF c = "A" THEN IdsOf(url) ELSE NoValidator]]

Times == 0..Len(ExpireDays)

NextCatalog ==
    \/ \E i \in Articles : rss_mark_read(i)
    \/ \E i \in Articles : rss_mark_unread(i)
    \/ \E f \in FeedURLs \cup {Undefined} : rss_mark_all_read(f)
    \/ \E a \in collections \cup {Undefined} : rss_mark_account_read(a)
    \/ \E i \in Articles : rss_add_to_favorites(i)
    \/ \E i \in Articles : rss_remove_from_favorites(i)
    \/ \E f \in FeedURLs : rss_remove_feed(f)
    \/ \E f \in FeedURLs : \E t \in Times : rss_clean_old_articles(f, t)
    \/ \E a \in collections : \E t \in Times : rss_clean_all_old_articles(a, t)
    \/ commitDone
    \/ restart

SpecCatalog == InitCatalog /\ [][NextCatalog]_vars

(***************************************************************************)
(* Specification of the article panels: the same account, the user reading *)
(* articles                                                                *)
(***************************************************************************)
NextPanels ==
    \/ \E i \in Articles : rss_mark_read(i)
    \/ \E i \in Articles : rss_mark_unread(i)
    \/ \E f \in FeedURLs : rss_remove_feed(f)
    \/ \E i \in Articles : rss_read(i)
    \/ \E r \in reading : \E content \in BOOLEAN : contentReturned(r, content)
    \/ \E i \in Articles : panelStar(i)
    \/ \E i \in Articles : panelNext(i)
    \/ commitDone

SpecPanels == InitCatalog /\ [][NextPanels]_vars

(***************************************************************************)
(* Specification of a local fetchAll: the account A, nothing fetched yet,  *)
(* the user marking what has arrived                                       *)
(***************************************************************************)
InitFanout ==
    /\ cfg_accounts = {"A"}
    /\ collections = {"A"}
    /\ current_account = "A"
    /\ current_feed = Undefined
    /\ updating = FALSE
    /\ tasks = {}
    /\ orphans = {}
    /\ feeds = [c \in Accounts |-> IF c = "A" THEN FeedURLs ELSE {}]
    /\ abstracts = [c \in Accounts |-> EmptyCatalog]
    /\ favorites = [c \in Accounts |-> {}]
    /\ stored = [c \in Accounts |-> EmptyCatalog]
    /\ dirty = [c \in Accounts |-> {}]
    /\ commits = [c \in Accounts |-> {}]
    /\ panels = {}
    /\ nIdle = 0
    /\ nRounds = 0
    /\ last = Op("init", "-", "-", 0, TRUE)
    /\ session = NoSession
    /\ call = NoCall
    /\ pushing = NoFlush
    /\ reading = {}
    /\ removing = {}
    /\ listing = NoListing
    /\ fanout = NoFanout
    /\ secret = NoSecret
    /\ settings = NoSettings
    /\ briefCache = NoBriefs
    /\ generatingArticles = {}
    /\ gens = {}
    /\ posted = NoMessages
    /\ upstream = Articles
    /\ validator = [c \in Accounts |-> [url \in FeedURLs |-> NoValidator]]

NextFanout ==
    \/ \E c \in collections : fanStart(c)
    \/ \E url \in FeedURLs : fanLaunch(url)
    \/ \E url \in FeedURLs : \E ok \in BOOLEAN : fanComplete(url, ok)
    \/ \E url \in FeedURLs : mergeBegin(url)
    \/ \E url \in FeedURLs : mergeEnd(url)
    \/ fanDone
    \/ \E f \in FeedURLs \cup {Unread} : rss_articles(f)
    \/ \E i \in Articles : rss_mark_read(i)
    \/ commitDone

SpecFanout == InitFanout /\ [][NextFanout]_vars

\* the same under the scheduling of the fetches: a fetch that may start does
\* start, one in flight ends (by an answer or by its timeout), a merge that
\* may begin or end does
SpecFanoutFair ==
    /\ SpecFanout
    /\ \A url \in FeedURLs :
          /\ WF_vars(fanLaunch(url))
          /\ WF_vars(\E ok \in BOOLEAN : fanComplete(url, ok))
          /\ WF_vars(mergeBegin(url))
          /\ WF_vars(mergeEnd(url))
    /\ WF_vars(fanDone)

(***************************************************************************)
(* Specification of the configuration manager: the settings the user      *)
(* edits and the calls of its methods                                      *)
(***************************************************************************)
NextConfig ==
    \/ \E b \in BOOLEAN : configure("enabled", b)
    \/ \E t \in {<<>>, <<"k">>} : configure("endpoint", t)
    \/ \E t \in Texts : configure("key", t)
    \/ callGetApiKey
    \/ \E apiKey \in Keys : callSetApiKey(apiKey)
    \/ \E apiKey \in Keys : rss_set_ai_api_key(apiKey)

SpecConfig == InitCatalog /\ [][NextConfig]_vars

\* the briefs of one panel under every configuration the settings give
NextValidate ==
    \/ \E b \in BOOLEAN : configure("enabled", b)
    \/ \E t \in {<<>>, <<"k">>} : configure("endpoint", t)
    \/ \E t \in {<<" ">>, <<"k">>} : configure("model", t)
    \/ \E t \in {<<>>, <<" ">>, <<"k">>} : configure("key", t)
    \/ generateBrief("p", Shown("p"))
    \/ \E g \in gens : briefValidated(g)
    \/ \E g \in gens : briefConfigured(g)
    \/ \E g \in gens : \E ok \in BOOLEAN : briefContent(g, ok)
    \/ \E g \in gens : briefChunk(g, "a")
    \/ \E g \in gens : briefComplete(g)
    \/ \E g \in gens : briefError(g)

SpecValidate == InitCatalog /\ [][NextValidate]_vars

(***************************************************************************)
(* Specification of the AI brief: two panels, the settings the user edits  *)
(***************************************************************************)
\* the catalog fetched and the AI brief configured: enabled, with endpoint,
\* model and a stored key
InitBrief ==
    /\ cfg_accounts = {"A"}
    /\ collections = {"A"}
    /\ current_account = "A"
    /\ current_feed = Undefined
    /\ updating = FALSE
    /\ tasks = {}
    /\ orphans = {}
    /\ feeds = [c \in Accounts |-> IF c = "A" THEN FeedURLs ELSE {}]
    /\ abstracts = [c \in Accounts |-> IF c = "A" THEN FetchedCatalog ELSE EmptyCatalog]
    /\ favorites = [c \in Accounts |-> {}]
    /\ stored = [c \in Accounts |-> IF c = "A" THEN FetchedCatalog ELSE EmptyCatalog]
    /\ dirty = [c \in Accounts |-> {}]
    /\ commits = [c \in Accounts |-> {}]
    /\ panels = {}
    /\ nIdle = 0
    /\ nRounds = 0
    /\ last = Op("init", "-", "-", 0, TRUE)
    /\ session = NoSession
    /\ call = NoCall
    /\ pushing = NoFlush
    /\ reading = {}
    /\ removing = {}
    /\ listing = NoListing
    /\ fanout = NoFanout
    /\ secret = <<"k">>
    /\ settings = [enabled |-> TRUE, endpoint |-> <<"k">>, model |-> <<"k">>, key |-> <<>>]
    /\ briefCache = NoBriefs
    /\ generatingArticles = {}
    /\ gens = {}
    /\ posted = NoMessages
    /\ upstream = Articles
    /\ validator = [c \in Accounts |-> [url \in FeedURLs |->
          IF c = "A" THEN IdsOf(url) ELSE NoValidator]]

NextBrief ==
    \/ \E b \in BOOLEAN : configure("enabled", b)
    \/ \E t \in {<<" ">>, <<"k">>} : configure("model", t)
    \/ \E panel \in Panels : generateBrief(panel, Shown(panel))
    \/ \E g \in gens : briefValidated(g)
    \/ \E g \in gens : briefConfigured(g)
    \/ \E g \in gens : \E ok \in BOOLEAN : briefContent(g, ok)
    \/ \E g \in gens : briefChunk(g, "a")
    \/ \E g \in gens : briefComplete(g)
    \/ \E g \in gens : briefError(g)

SpecBrief == InitBrief /\ [][NextBrief]_vars

\* the generations of one panel, the stream yielding chunks of either kind
NextStream ==
    \/ \E b \in BOOLEAN : configure("enabled", b)
    \/ generateBrief("p", Shown("p"))
    \/ \E g \in gens : briefValidated(g)
    \/ \E g \in gens : briefConfigured(g)
    \/ \E g \in gens : \E ok \in BOOLEAN : briefContent(g, ok)
    \/ \E g \in gens : \E chunk \in Chunks : briefChunk(g, chunk)
    \/ \E g \in gens : briefComplete(g)
    \/ \E g \in gens : briefError(g)

SpecStream == InitBrief /\ [][NextStream]_vars

\* the same with every awaited promise settling: the configuration manager
\* answers, getContent returns or throws, the stream ends or throws
SpecBriefFair ==
    /\ SpecBrief
    /\ WF_vars(\E g \in gens : briefValidated(g))
    /\ WF_vars(\E g \in gens : briefConfigured(g))
    /\ WF_vars(\E g \in gens : \E ok \in BOOLEAN : briefContent(g, ok))
    /\ WF_vars(\E g \in gens : briefComplete(g) \/ briefError(g))

(***************************************************************************)
(* Specification of the accounts: the local account A and the TTRSS        *)
(* account B, their articles fetched, the user switching between them      *)
(***************************************************************************)
Confirms == {"yes", "no", Undefined}

InitAccounts ==
    /\ cfg_accounts = Accounts
    /\ collections = Accounts
    /\ current_account = "A"
    /\ current_feed = Undefined
    /\ updating = FALSE
    /\ tasks = {}
    /\ orphans = {}
    /\ feeds = [c \in Accounts |-> FeedURLs]
    /\ abstracts = [c \in Accounts |-> FetchedCatalog]
    /\ favorites = [c \in Accounts |-> {}]
    /\ stored = [c \in Accounts |-> FetchedCatalog]
    /\ dirty = [c \in Accounts |-> {}]
    /\ commits = [c \in Accounts |-> {}]
    /\ panels = {}
    /\ nIdle = 0
    /\ nRounds = 0
    /\ last = Op("init", "-", "-", 0, TRUE)
    /\ session = NoSession
    /\ call = NoCall
    /\ pushing = NoFlush
    /\ reading = {}
    /\ removing = {}
    /\ listing = NoListing
    /\ fanout = NoFanout
    /\ secret = NoSecret
    /\ settings = NoSettings
    /\ briefCache = NoBriefs
    /\ generatingArticles = {}
    /\ gens = {}
    /\ posted = NoMessages
    /\ upstream = Articles
    /\ validator = [c \in Accounts |-> [url \in FeedURLs |-> IdsOf(url)]]

NextAccounts ==
    \/ \E a \in collections : rss_select(a)
    \/ \E i \in Articles : rss_read(i)
    \/ \E r \in reading : \E content \in BOOLEAN : contentReturned(r, content)
    \/ commitDone
    \/ \E a \in Accounts : \E confirm \in Confirms : rss_del_account(a, confirm)
    \/ \E a \in Accounts : accountRemoved(a)

SpecAccounts == InitAccounts /\ [][NextAccounts]_vars

(***************************************************************************)
(* Specification of the accounts reload: the accounts A and B fetched, the *)
(* configuration edited and accounts removed while refreshes run           *)
(***************************************************************************)
NextReload ==
    \/ \E keys \in SUBSET Accounts : accountsEdited(keys)
    \/ accountsChangedFetch
    \/ fetchResolved
    \/ \E auto \in BOOLEAN : rss_refresh(auto)
    \/ \E a \in collections : rss_select(a)
    \/ \E a \in collections : \E confirm \in Confirms : rss_del_account(a, confirm)
    \/ \E a \in Accounts : accountRemovedNotified(a)
    \/ rss_mark_read(1)
    \/ commitDone

SpecReload == InitAccounts /\ [][NextReload]_vars

\* the same with the awaited steps of a refresh and of a reload ending
SpecReloadFair ==
    /\ SpecReload
    /\ WF_vars(accountsChangedFetch)
    /\ WF_vars(fetchResolved)
    /\ WF_vars(\E a \in Accounts : accountRemovedNotified(a))

(***************************************************************************)
(* Specification of a remote account: the TTRSS account B, its articles    *)
(* fetched, whose flags the user changes                                   *)
(***************************************************************************)
InitRemote ==
    /\ cfg_accounts = {"B"}
    /\ collections = {"B"}
    /\ current_account = "B"
    /\ current_feed = Undefined
    /\ updating = FALSE
    /\ tasks = {}
    /\ orphans = {}
    /\ feeds = [c \in Accounts |-> IF c = "B" THEN FeedURLs ELSE {}]
    /\ abstracts = [c \in Accounts |-> IF c = "B" THEN FetchedCatalog ELSE EmptyCatalog]
    /\ favorites = [c \in Accounts |-> {}]
    /\ stored = [c \in Accounts |-> IF c = "B" THEN FetchedCatalog ELSE EmptyCatalog]
    /\ dirty = [c \in Accounts |-> {}]
    /\ commits = [c \in Accounts |-> {}]
    /\ panels = {}
    /\ nIdle = 0
    /\ nRounds = 0
    /\ last = Op("init", "-", "-", 0, TRUE)
    /\ session = NoSession
    /\ call = NoCall
    /\ pushing = NoFlush
    /\ reading = {}
    /\ removing = {}
    /\ listing = NoListing
    /\ fanout = NoFanout
    /\ secret = NoSecret
    /\ settings = NoSettings
    /\ briefCache = NoBriefs
    /\ generatingArticles = {}
    /\ gens = {}
    /\ posted = NoMessages
    /\ upstream = Articles
    /\ validator = [c \in Accounts |-> [url \in FeedURLs |->
          IF c = "B" THEN IdsOf(url) ELSE NoValidator]]

NextRemote ==
    \/ \E i \in Articles : rss_mark_read(i)
    \/ \E i \in Articles : rss_mark_unread(i)
    \/ commitLocal
    \/ \E i \in Articles : pushMutation(i)
    \/ \E ok \in BOOLEAN : authDone(ok)
    \/ \E r \in Responses : response(r)
    \/ reauthenticate
    \/ pushDone
    \/ commitReturn
    \/ commitDone

SpecRemote == InitRemote /\ [][NextRemote]_vars

(***************************************************************************)
(* Specification of a remote listing: the TTRSS account B fetching while   *)
(* the user changes flags                                                  *)
(***************************************************************************)
NextListing ==
    \/ \E c \in collections : listStart(c)
    \/ \E k \in 0..PageSize : \E more \in BOOLEAN : pageReturned(k, more)
    \/ listDone
    \/ \E i \in Articles : rss_mark_read(i)
    \/ \E i \in Articles : rss_mark_unread(i)
    \/ commitDone

SpecListing == InitRemote /\ [][NextListing]_vars

(***************************************************************************)
(* The refresh guard: claims                                               *)
(***************************************************************************)
RefreshOps == {"rss_refresh", "rss_refresh_account", "rss_refresh_one", "accountsChanged"}

\* C1: at most one refresh is in flight in an App: the refresh callbacks that
\* await a fetch (or initAccounts) are never two, the one there is holds the
\* updating flag, and every fetch awaited belongs to it.
OneRefreshInFlight ==
    /\ Cardinality(tasks) <= 1
    /\ tasks # {} => updating
    /\ ~updating => InFlight = {}

\* C1 witness: a request for one account was turned away while a refresh was
\* in flight.
OneRefreshInFlightWitness ==
    /\ last.op = "rss_refresh_account"
    /\ ~last.ok
    /\ Cardinality(tasks) = 1

\* C2 (as claimed): a refresh that has ended, also by a failed fetch, leaves
\* the guard idle: whenever no refresh callback is in flight, updating is false.
FailedRefreshReturnsToIdle == tasks = {} => ~updating

\* a refresh of one account alone is in flight and the last request asked
\* for another account
OtherAccountRequested ==
    /\ last.op = "rss_refresh_account"
    /\ \E t \in tasks :
          /\ t.kind = "rss_refresh_account"
          /\ t.waiting # {}
          /\ \A f \in t.waiting : f.acct # last.acct

RoundsEqualIdleRequests == nRounds = nIdle

\* C4 (amended): a request that arrives while the guard is taken changes
\* nothing; a round starts only in a step that is a request arriving at an
\* idle guard, so nothing is queued and run later; and a request arriving at an
\* idle guard starts a round unless it is rss_refresh_one with no feed given
\* and none selected.
IgnoredNotQueued ==
    [][/\ (updating /\ last'.op \in RefreshOps) =>
            UNCHANGED <<appVars, guardVars, catalogVars, panels, countVars>>
       /\ nRounds' # nRounds =>
            /\ ~updating
            /\ last'.op \in RefreshOps
            /\ last'.ok
            /\ nRounds' = nRounds + 1
            /\ nIdle' = nIdle + 1
       /\ nIdle' # nIdle =>
            \/ nRounds' = nRounds + 1
            \/ last' = Op("rss_refresh_one", currCollection, Undefined, 0, FALSE)
      ]_vars

\* C4 witness: a whole-app refresh request was turned away during the only
\* round started so far.
IgnoredNotQueuedWitness ==
    /\ last.op = "rss_refresh"
    /\ ~last.ok
    /\ tasks # {}
    /\ nRounds = 1

(***************************************************************************)
(* The catalog: claims                                                     *)
(***************************************************************************)
\* what a clean of the feeds fs of collection c with the period of index time
\* may have done in a step: it removed only Abstracts of fs that were read, not
\* starred and older than the period, from memory and from the store, and left
\* every other Abstract as it was
CleanedOnlyExpired(c, fs, time) ==
    \A i \in Articles :
        /\ (\/ abstracts[c][i].present /\ ~abstracts'[c][i].present
            \/ stored[c][i].present /\ ~stored'[c][i].present) =>
              /\ abstracts[c][i].read
              /\ ~abstracts[c][i].starred
              /\ FeedOf(i) \in fs
              /\ time # 0
              /\ AgeDays(i) > ExpireDays[time]
        /\ abstracts'[c][i].present => abstracts'[c][i] = abstracts[c][i]
        /\ (i \in favorites[c]) = (i \in favorites'[c])

\* every clean command a step may be removes only what its period expires
CleanStepsOnlyExpired ==
    /\ \A f \in FeedURLs : \A t \in Times :
            rss_clean_old_articles(f, t) => CleanedOnlyExpired(currCollection, {f}, t)
    /\ \A a \in Accounts : \A t \in Times :
            rss_clean_all_old_articles(a, t) => CleanedOnlyExpired(a, FeedURLs, t)

\* C5: rss_clean_old_articles and rss_clean_all_old_articles never remove an
\* Abstract that is unread or starred, nor its persisted copy, whatever its age
\* and whichever period is picked; what they remove is read, not starred and
\* older than the period picked.
\* (a step that leaves abstracts, stored and favorites as they were satisfies
\* CleanedOnlyExpired whatever the period, so only the other steps are examined)
RetentionSafety ==
    [][(<<abstracts, stored, favorites>>' # <<abstracts, stored, favorites>>) =>
          CleanStepsOnlyExpired]_vars

\* C5 witness: with both feeds still subscribed, the read article 1 (100 days
\* old) has been cleaned away and the unread article 2 (45 days old) is kept.
RetentionSafetyWitness ==
    /\ feeds["A"] = FeedURLs
    /\ ~abstracts["A"][1].present
    /\ ~stored["A"][1].present
    /\ abstracts["A"][2].present
    /\ ~abstracts["A"][2].read

\* C6: an id is in the FavoritesList exactly if its Abstract exists and is
\* starred, in every state the handlers can reach.
FavoritesInvariant ==
    \A c \in Accounts : \A i \in Articles :
        (i \in favorites[c]) = (abstracts[c][i].present /\ abstracts[c][i].starred)

\* C6 witness: article 1 is a favorite and starred, article 2 is neither.
FavoritesInvariantWitness ==
    /\ favorites["A"] = {1}
    /\ abstracts["A"][1].starred
    /\ abstracts["A"][2].present
    /\ ~abstracts["A"][2].starred

\* C7: a step of rss_remove_feed(f) leaves no Summary of f, no Abstract of f in
\* memory or in the store and no favorite of f, and the feeds, Abstracts and
\* favorites of the other feeds as they were.
DelFeedPurges ==
    [][\A f \in FeedURLs :
          rss_remove_feed(f) =>
              LET c == currCollection
              IN /\ f \notin feeds'[c]
                 /\ feeds'[c] = feeds[c] \ {f}
                 /\ \A i \in IdsOf(f) :
                       /\ ~abstracts'[c][i].present
                       /\ ~stored'[c][i].present
                       /\ i \notin favorites'[c]
                 /\ \A i \in Articles \ IdsOf(f) :
                       /\ abstracts'[c][i] = abstracts[c][i]
                       /\ (i \in favorites'[c]) = (i \in favorites[c])
      ]_vars

\* C7 witness: feed f is deleted with its article, and the favorite of feed g
\* is still there.
DelFeedPurgesWitness ==
    /\ feeds["A"] = {"g"}
    /\ ~abstracts["A"][1].present
    /\ favorites["A"] = {2}

SortedByDateDesc(q) == \A j, k \in 1..Len(q) : j < k => Date(q[j]) >= Date(q[k])

\* C8: getArticles('<unread>') holds exactly the unread Abstracts of the
\* account, each once, newest first; a step of rss_mark_read or of a successful
\* rss_read takes the Abstract out of it, a step of rss_mark_unread puts it in.
UnreadFeed ==
    /\ [](\A c \in Accounts :
            LET q == getArticles(c, Unread)
            IN /\ Range(q) = {i \in Articles : abstracts[c][i].present /\ ~abstracts[c][i].read}
               /\ Len(q) = Cardinality(Range(q))
               /\ SortedByDateDesc(q))
    /\ [][\A i \in Articles :
            /\ rss_mark_read(i) => i \notin Range(getArticles(currCollection, Unread))'
            /\ \A c \in collections : contentReturned(Read(c, i), TRUE) =>
                  i \notin Range(getArticles(c, Unread))'
            /\ rss_mark_unread(i) => i \in Range(getArticles(currCollection, Unread))'
         ]_vars

\* C8 witness: of two articles the first has been marked read, and the unread
\* feed is exactly the second.
UnreadFeedWitness ==
    /\ abstracts["A"][1].present
    /\ abstracts["A"][1].read
    /\ getArticles("A", Unread) = <<2>>

\* no commit has the id pending or in flight
Flushed(c, i) == i \notin dirty[c] /\ \A d \in commits[c] : i \notin d

\* C9: once the commits that followed the updates of an Abstract have returned
\* (its id is neither pending nor in a flush in flight), a Collection
\* initialised from the store reports the Abstract as memory has it, read flag
\* included.
CommitDurability ==
    \A c \in Accounts : \A i \in Articles :
        Flushed(c, i) => Reloaded(c)[i] = abstracts[c][i]

\* C9 witness: article 1 was marked read, every commit has returned, and the
\* store reports it read.
CommitDurabilityWitness ==
    /\ abstracts["A"][1].read
    /\ commits["A"] = {}
    /\ dirty["A"] = {}
    /\ Reloaded("A")[1].read
    /\ panels = {}

\* C10: no mutation is lost to a commit in flight: a step that changes the
\* flags of an Abstract leaves its id pending or in the snapshot of a flush in
\* flight; a flush that ends clears no pending id and no other snapshot; and a
\* commit that starts takes every pending id into its snapshot.
NoLostMutation ==
    [][\A c \in Accounts :
          /\ ~restart =>
                \A i \in Articles :
                    (/\ abstracts[c][i].present
                     /\ abstracts'[c][i].present
                     /\ abstracts'[c][i] # abstracts[c][i]) =>
                        (i \in dirty'[c] \/ \E d \in commits'[c] : i \in d)
          /\ commitDone =>
                /\ dirty[c] \subseteq dirty'[c]
                /\ Cardinality(commits[c] \ commits'[c]) <= 1
          /\ \A d \in commits'[c] \ commits[c] :
                /\ dirty[c] \subseteq d
                /\ dirty'[c] = {}
      ]_vars

\* C10 witness: an Abstract was changed while a commit was in flight: two
\* snapshots are in flight at once.
NoLostMutationWitness ==
    \E d1, d2 \in commits["A"] : d1 # d2

(***************************************************************************)
(* Remote backends: claims                                                 *)
(***************************************************************************)
\* the id is pending or in the snapshot of a flush that has not persisted yet
StillPending(c, i) == i \in dirty[c] \/ \E d \in commits[c] : i \in d

\* C11: a commit() whose remote push fails for some Abstracts returns a
\* partial-failure result and raises nothing; it keeps what it persisted
\* locally; the ids whose push failed, and of its snapshot only those, are
\* pending again; a push counts as failed exactly if its call did not end ok;
\* and a commit that ends by a storage error has its whole snapshot pending.
PartialFailureKeepsPending ==
    [][/\ commitReturn =>
            LET c == pushing.acct
                d == pushing.d
            IN /\ stored' = stored
               /\ \A i \in d : stored[c][i] = abstracts[c][i] \/ StillPending(c, i)
               /\ dirty'[c] = dirty[c] \cup pushing.failed
               /\ pushing.failed \subseteq d
               /\ last'.op = "commit"
               /\ last'.failed = pushing.failed
               /\ last'.status = (IF pushing.failed = {} THEN "ok" ELSE "partial")
       /\ pushDone =>
            /\ (call.id \in pushing'.failed) = (call.status # "ok" \/ call.id \in pushing.failed)
            /\ pushing'.failed \ {call.id} = pushing.failed \ {call.id}
       /\ \A c \in Accounts : \A d \in commits[c] \ commits'[c] :
            (Remote(c) /\ ~commitLocal) => d \subseteq dirty'[c]
      ]_vars

\* C11 witness: the commit of article 1 returned a partial failure; article 1
\* is read in the store and pending again.
PartialFailureKeepsPendingWitness ==
    /\ last.op = "commit"
    /\ last.status = "partial"
    /\ last.failed = {1}
    /\ 1 \in dirty["B"]
    /\ stored["B"][1].read
    /\ pushing = NoFlush

\* the progress a remote API call has made
CallMeasure == call.tries + call.reauths + call.autherrs + (IF call.pc = "done" THEN 1 ELSE 0)

\* C12: a remote API call re-authenticates at most once and is issued at most
\* twice; a call every answer to which is an auth error ends with AuthError
\* after exactly one re-authentication attempt and, when that attempt gave a
\* session, exactly one retry; and the call terminates: while it is in flight
\* its next step is enabled, and each of its steps advances a bounded measure.
AuthRetryBound ==
    /\ [](/\ call.reauths <= 1
          /\ call.tries <= 2
          /\ call.autherrs <= call.tries
          /\ (call.pc = "done" /\ call.autherrs >= 1 /\ call.autherrs = call.tries) =>
                /\ call.status = "AuthError"
                /\ call.reauths = 1
          /\ call.autherrs = 2 =>
                /\ call.pc = "done"
                /\ call.status = "AuthError"
                /\ call.tries = 2
                /\ call.reauths = 1
          /\ call.pc \in {"authenticating", "calling", "expired"} =>
                ENABLED ((\E ok \in BOOLEAN : authDone(ok)) \/ (\E r \in Responses : response(r))
                         \/ reauthenticate)
          /\ CallMeasure <= 6)
    /\ [][(call' # call /\ call.pc \notin {"idle", "done"}) => CallMeasure' > CallMeasure]_vars

\* C12 witness: a call was answered by an auth error twice: it re-authenticated
\* once, was retried once and ended with AuthError.
AuthRetryBoundWitness ==
    /\ call.pc = "done"
    /\ call.autherrs = 2
    /\ call.tries = 2
    /\ call.reauths = 1
    /\ call.status = "AuthError"

\* the transitions of a remote backend session
SessionTransitions ==
    {<<"Unauthenticated", "Authenticating">>, <<"Authenticating", "Authenticated">>,
     <<"Authenticated", "Expired">>, <<"Expired", "Authenticating">>}

ListingSteps ==
    \A k \in 0..PageSize : \A more \in BOOLEAN :
        pageReturned(k, more) =>
            /\ listing'.pages = listing.pages + 1
            /\ (listing'.pc = "requesting") = (k > 0 /\ more /\ listing'.items < MaxItems)
            /\ (listing'.pc = "done") = (k = 0 \/ ~more \/ listing'.items >= MaxItems)
            /\ listing'.pc = "requesting" => listing'.items > listing.items

FetchAllIsolation ==
    [][last'.op = "fetchResolved" =>
        \A t \in tasks : \A f \in t.waiting : \A failed \in SUBSET FeedURLs :
          (f.url = "*" /\ fetchDone(t, f, failed)) =>
              /\ \A url \in feeds[f.acct] \ failed : \A i \in IdsOf(url) \cap upstream :
                    /\ abstracts'[f.acct][i].present
                    /\ stored'[f.acct][i].present
              /\ \A url \in failed : \A i \in IdsOf(url) :
                    /\ abstracts'[f.acct][i] = abstracts[f.acct][i]
                    /\ stored'[f.acct][i] = stored[f.acct][i]
              /\ last'.ok
              /\ last'.failed = failed
              /\ last'.n = Cardinality(feeds[f.acct] \ failed)
      ]_vars

\* C14 witness: of the two feeds of an account, f failed and g was merged.
FetchAllIsolationWitness ==
    /\ last.op = "fetchResolved"
    /\ last.feed = "*"
    /\ last.failed = {"f"}
    /\ last.n = 1
    /\ upstream = Articles
    /\ ~abstracts[last.acct][1].present
    /\ abstracts[last.acct][2].present

\* what a fetch of the feed url of c that ends leaves when nothing was written
FeedUntouched(c, url) ==
    /\ url \notin last'.written
    /\ validator'[c][url] = validator[c][url]
    /\ \A i \in IdsOf(url) :
          /\ abstracts'[c][i] = abstracts[c][i]
          /\ stored'[c][i] = stored[c][i]

\* C15: a fetch without force is idempotent: a fetch that writes a feed leaves
\* the validator of what upstream serves, and a fetch without force of a feed
\* whose validator is still the one upstream serves (nothing was published
\* since the fetch before) adds no Abstract and writes neither the Summary nor
\* a content entry: catalog and store of the feed are as before the call.
FetchOneIdempotent ==
    [][last'.op = "fetchResolved" =>
        \A t \in tasks : \A f \in t.waiting : \A failed \in SUBSET Fallible(f) :
          fetchDone(t, f, failed) =>
              \A url \in Covered(f.acct, f.url) \ failed :
                  /\ Current(f.acct, url)' 
                  /\ (~f.force /\ Current(f.acct, url)) => FeedUntouched(f.acct, url)
      ]_vars

\* C15 witness: a fetch without force ended, no feed failed and nothing was
\* written, the Abstracts of an earlier fetch being in the catalog.
FetchOneIdempotentWitness ==
    /\ last.op = "fetchResolved"
    /\ ~last.force
    /\ last.failed = {}
    /\ last.written = {}
    /\ last.n = 2
    /\ abstracts[last.acct][1].present

\* C18: an addFeed whose validation fetch or parse fails ends with InvalidFeed
\* and changes nothing: feeds, Abstracts, favorites, pending set, flushes, store
\* and validators are as before the call; rss_add_feed whose input box was
\* cancelled or left empty does not call addFeed and changes nothing either.
AddFeedValidation ==
    [][\A feed \in Inputs : \A ok \in BOOLEAN :
          rss_add_feed(feed, ok) =>
              /\ (feed \in {Undefined, ""}) =>
                    /\ last'.op # "addFeed"
                    /\ UNCHANGED <<catalogVars, validator>>
              /\ (feed \in FeedURLs /\ ~ok) =>
                    /\ last'.op = "addFeed"
                    /\ last'.status = "InvalidFeed"
                    /\ UNCHANGED <<catalogVars, validator>>
              /\ (feed \in FeedURLs /\ ok) =>
                    /\ feed \in feeds'[currCollection]
                    /\ \A i \in IdsOf(feed) \cap upstream :
                          /\ abstracts'[currCollection][i].present
                          /\ stored'[currCollection][i].present
      ]_vars

\* C18 witness: addFeed of g has failed with InvalidFeed, g is not among the
\* feeds and none of its articles is in the catalog.
AddFeedValidationWitness ==
    /\ last.op = "addFeed"
    /\ last.status = "InvalidFeed"
    /\ last.feed = "g"
    /\ feeds["A"] = {"f"}
    /\ \A i \in IdsOf("g") : ~abstracts["A"][i].present

\* C21: merges of fetch results are serialized: inside one fetchAll at most one
\* merge is writing at any time, so no two fetch completions interleave their
\* writes to a Summary; and every step that changes the Abstracts or the store
\* of a feed is the end of the one merge in progress, which writes the whole
\* feed at once.
MergesSerialized ==
    /\ [](Cardinality(fanout.merging) <= 1)
    /\ [][\A url \in FeedURLs :
            mergeEnd(url) =>
                /\ fanout.merging = {url}
                /\ \A i \in Articles :
                      IF FeedOf(i) = url
                      THEN /\ abstracts'[fanout.acct][i].present
                           /\ stored'[fanout.acct][i].present
                      ELSE /\ abstracts'[fanout.acct][i] = abstracts[fanout.acct][i]
                           /\ stored'[fanout.acct][i] = stored[fanout.acct][i]
         ]_vars

\* C21 witness: the fetches of both feeds have ended; the merge of one is
\* writing while the other waits its turn.
MergesSerializedWitness ==
    /\ fanout.merging = {"f"}
    /\ fanout.ready = {"g"}

\* C24: during a local fetchAll never more than Ceiling per-feed fetches are
\* in flight, no feed is attempted twice, a fetchAll that has feeds left can
\* always go on, it resolves only when every known feed was attempted exactly
\* once, and under fair scheduling every feed to fetch is eventually attempted
\* and the fetchAll eventually resolves.
BoundedFanout ==
    /\ [](/\ Cardinality(fanout.inflight) <= Ceiling
          /\ \A url \in FeedURLs : fanout.attempts[url] <= 1
          /\ (fanout.todo # {} /\ fanout.inflight = {}) =>
                \E url \in fanout.todo : ENABLED fanLaunch(url)
          /\ \A url \in fanout.inflight : ENABLED fanComplete(url, TRUE))
    /\ [][fanDone => \A url \in feeds[fanout.acct] : fanout.attempts[url] = 1]_vars
    /\ \A url \in FeedURLs :
          (url \in fanout.todo) ~> (fanout.attempts[url] = 1)
    /\ (fanout.acct # "-") ~> (fanout = NoFanout)

\* C24 witness: with one fetch in flight the other feed waits; the first was
\* attempted once, the second not yet.
BoundedFanoutWitness ==
    /\ fanout.inflight = {"f"}
    /\ fanout.todo = {"g"}
    /\ fanout.attempts["f"] = 1
    /\ fanout.attempts["g"] = 0

\* C22: the read queries never wait: in every state, also while fetches and
\* flushes are in flight, a feed can be selected and currArticles is the empty
\* sequence when no feed is selected and otherwise exactly the Abstracts merged
\* so far for the selection; a fetch that starts or ends, a merge that begins
\* and a flush that ends change neither currArticles nor currFavorites, and the
\* end of a merge makes the feed's list the merged snapshot.
SnapshotReads ==
    /\ [](/\ current_feed = Undefined => currArticles = <<>>
          /\ current_feed # Undefined =>
                /\ Range(currArticles) =
                      {i \in Articles :
                          /\ abstracts[currCollection][i].present
                          /\ IF current_feed = Unread
                             THEN ~abstracts[currCollection][i].read
                             ELSE FeedOf(i) = current_feed}
                /\ Len(currArticles) = Cardinality(Range(currArticles))
          /\ \A f \in FeedURLs \cup {Unread} : ENABLED rss_articles(f))
    /\ [][(\/ \E url \in FeedURLs : fanLaunch(url) \/ mergeBegin(url)
           \/ \E url \in FeedURLs : \E ok \in BOOLEAN : fanComplete(url, ok)
           \/ commitDone)
          => /\ currArticles' = currArticles
             /\ currFavorites' = currFavorites]_vars
    /\ [][\A url \in FeedURLs :
            mergeEnd(url) /\ current_feed = url =>
                Range(currArticles') = IdsOf(url) \cap upstream]_vars

\* C22 witness: a fetch and a flush are in flight while the selected feed
\* lists its merged article.
SnapshotReadsWitness ==
    /\ fanout.inflight # {}
    /\ commits[currCollection] # {}
    /\ current_feed = "f"
    /\ currArticles = <<1>>

\* C23: a commit removes from the pending set exactly what it flushed: the
\* flush of the snapshot d that succeeds writes the store at the ids of d and
\* nowhere else, ends this flush and no other, and leaves the pending set as it
\* is; one that fails writes nothing and makes its ids pending again. A
\* commit() that finds nothing pending (mark-all-read of an empty list) changes
\* neither the pending set, the flushes in flight, the store nor the catalog.
CommitClearsWhatItFlushed ==
    [][/\ \A c \in Accounts : \A d \in SUBSET Articles :
            /\ flushDone(c, d, TRUE) =>
                  /\ dirty' = dirty
                  /\ commits'[c] = commits[c] \ {d}
                  /\ \A i \in Articles :
                        stored'[c][i] = IF i \in d THEN abstracts[c][i] ELSE stored[c][i]
            /\ flushDone(c, d, FALSE) =>
                  /\ stored' = stored
                  /\ dirty'[c] = dirty[c] \cup (d \cap Present(c))
       /\ (rss_mark_all_read(Undefined) /\ dirty[currCollection] = {} /\ currArticles = <<>>) =>
            UNCHANGED <<dirty, commits, stored, abstracts>>
      ]_vars

\* C23 witness: of two flushes in flight the one of article 2 failed and the
\* one of article 1 succeeded: article 1 is persisted read and no longer
\* pending, article 2 is still pending and not persisted.
CommitClearsWhatItFlushedWitness ==
    /\ commits["A"] = {}
    /\ dirty["A"] = {2}
    /\ abstracts["A"][1].read /\ stored["A"][1].read
    /\ abstracts["A"][2].read /\ ~stored["A"][2].read

\* C25: force=true is requested only by the user's explicit refresh: the
\* automatic refresh of the timer (rss.refresh with auto = true) and the reload
\* after a change of the accounts start only fetches with force = false.
ForceOnlyByUser ==
    [][(rss_refresh(TRUE) \/ accountsChangedFetch) =>
          \A t \in tasks' \ tasks : \A f \in t.waiting : ~f.force]_vars

(***************************************************************************)
(* Commands on the catalog: further claims                                 *)
(***************************************************************************)
\* what a batch over the Abstracts q of c leaves: each of them read in memory,
\* nothing pending, and at most one flush more than before, which holds them
MarkedAsBatch(c, q) ==
    LET d == dirty[c] \cup Range(q)
    IN /\ \A i \in Range(q) : abstracts'[c][i].read
       /\ dirty'[c] = {}
       /\ commits'[c] = IF d = {} THEN commits[c] ELSE commits[c] \cup {d}

\* the steps of C16
MarkAllReadSteps ==
    /\ \A f \in FeedURLs \cup {Undefined} :
          (UNCHANGED <<reading, panels, stored, favorites>> /\ rss_mark_all_read(f)) =>
              MarkedAsBatch(currCollection,
                            IF f # Undefined THEN getArticles(currCollection, f)
                            ELSE currArticles)
    /\ \A a \in collections \cup {Undefined} :
          (UNCHANGED <<reading, panels, stored, favorites>> /\ rss_mark_account_read(a)) =>
              LET c == IF a # Undefined THEN a ELSE currCollection
              IN /\ MarkedAsBatch(c, getArticles(c, Unread))
                 /\ \A i \in Present(c) : abstracts'[c][i].read
    /\ \A c \in collections : \A d \in commits[c] :
          (UNCHANGED <<reading, panels, abstracts, dirty>> /\ flushDone(c, d, TRUE)) =>
              \A i \in d : stored'[c][i] = abstracts'[c][i]

\* C16: mark-all-read is one batch: rss_mark_all_read and rss_mark_account_read
\* update every Abstract of the feed (every unread Abstract of the account) and
\* commit once, after the last update, so that nothing is pending and one flush
\* holds all of them; when that flush returns, the store holds each of them
\* as it is in memory.
MarkAllReadOneBatch == [][MarkAllReadSteps]_vars

\* C16 witness: after rss_mark_account_read both articles are read in memory,
\* nothing is pending and the one flush in flight holds both, the store still
\* holding them unread.
MarkAllReadOneBatchWitness ==
    /\ \A i \in Articles :
          /\ abstracts["A"][i].present /\ abstracts["A"][i].read
          /\ stored["A"][i].present /\ ~stored["A"][i].read
    /\ dirty["A"] = {}
    /\ commits["A"] = {Articles}

(***************************************************************************)
(* Accounts: claims                                                        *)
(***************************************************************************)
\* the read or the favorite flag of the Abstract i of c changes in the step
FlagChanged(c, i) ==
    /\ abstracts[c][i].present
    /\ abstracts'[c][i].present
    /\ \/ abstracts'[c][i].read # abstracts[c][i].read
       \/ abstracts'[c][i].starred # abstracts[c][i].starred

\* C17: only Collection operations change the read or favorite flag of an
\* in-memory Abstract: every step that changes one is a step of updateAbstract
\* or of a favorites operation of the collection that owns the Abstract, which
\* leaves the id pending or in the flush of its commit; no handler writes the
\* flag itself.
OnlyCollectionWrites ==
    [][\A c \in Accounts : \A i \in Articles :
          FlagChanged(c, i) => i \in dirty'[c] \cup UNION commits'[c]]_vars

\* nothing of the collection c is left in its storage
TornDown(c) ==
    /\ feeds'[c] = {}
    /\ \A i \in Articles : ~stored'[c][i].present

\* the steps of C19
RemoveAccountSteps ==
    /\ \A a \in Accounts : \A confirm \in Confirms :
          rss_del_account(a, confirm) =>
              IF confirm = "yes" /\ a \in collections
              THEN /\ TornDown(a)
                   /\ UNCHANGED <<collections, cfg_accounts>>
                   /\ a \in removing'
              ELSE UNCHANGED <<collections, cfg_accounts, catalogVars, removing>>
    /\ \A a \in Accounts :
          (a \in collections /\ a \notin collections') =>
              /\ a \in removing
              /\ \A i \in Articles : ~stored[a][i].present
              /\ a \notin cfg_accounts'
              /\ collections' = collections \ {a}
              /\ cfg_accounts' = cfg_accounts \ {a}
    /\ cfg_accounts' # cfg_accounts => collections' # collections

\* C19: removing an account cascades: rss_del_account answered with 'yes' for
\* a known key first tears down what the collection persisted with clean(),
\* the key still being in collections and configuration, and only then the key
\* leaves collections and configuration, together; for an unknown key and for
\* any other answer collections, configuration and storage are unchanged.
RemoveAccountCascade == [][RemoveAccountSteps]_vars

\* C19 witness: account B was removed after its storage was torn down, account
\* A is as it was.
RemoveAccountCascadeWitness ==
    /\ collections = {"A"}
    /\ cfg_accounts = {"A"}
    /\ last.op = "removeAccount"
    /\ last.acct = "B"
    /\ \A i \in Articles : ~stored["B"][i].present /\ stored["A"][i].present


(***************************************************************************)
(* AI brief and its configuration: claims                                  *)
(***************************************************************************)
\* a text that is undefined, empty or made of whitespace only
IsBlank(t) == t = NoText \/ \A k \in 1..Len(t) : t[k] \in Whitespace

\* C28: getApiKey returns the key of SecretStorage when that is not blank;
\* otherwise the key of the settings when that is not blank, and then this key
\* is in SecretStorage and the settings' key is empty, so that the next call
\* takes the same key from SecretStorage; otherwise undefined. It never returns
\* a blank text. setApiKey of a blank value deletes the stored key, of any
\* other value stores it.
ApiKeyResolution ==
    [][/\ \A key \in Keys :
            (callGetApiKey /\ last' = Returned("getApiKey", key)) =>
                /\ IF ~IsBlank(secret)
                   THEN key = secret /\ UNCHANGED configVars
                   ELSE IF ~IsBlank(settings.key)
                   THEN /\ key = settings.key
                        /\ secret' = key
                        /\ settings' = [settings EXCEPT !.key = <<>>]
                   ELSE key = NoText /\ UNCHANGED configVars
                /\ key # NoText => ~IsBlank(key) /\ secret' = key
       /\ \A apiKey \in Keys :
            (callSetApiKey(apiKey) /\ last' = Returned("setApiKey", apiKey)) =>
                /\ secret' = IF IsBlank(apiKey) THEN NoText ELSE apiKey
                /\ settings' = settings
      ]_vars

\* C28 witness: getApiKey has returned the key " k" that the settings held; it
\* is now the stored key and the settings hold none.
ApiKeyResolutionWitness ==
    /\ last = Returned("getApiKey", <<" ", "k">>)
    /\ secret = <<" ", "k">>
    /\ settings.key = <<>>


\* C29: validateConfig is valid exactly if the feature is enabled and
\* endpoint, API key and model are all not blank; otherwise its error is that
\* of the first failing check in the order enabled, endpoint, API key, model;
\* and a generation whose validation is not valid posts briefError to its
\* panel, ends, and no generation has reached the AI service.
ValidationOrder ==
    [][\A g \in gens : \A v \in Validations :
          (briefValidated(g) /\ validateConfig(v)) =>
              LET keyThere == ~IsBlank(secret) \/ ~IsBlank(settings.key)
                  expected ==
                      IF ~settings.enabled THEN "AI brief feature is not enabled"
                      ELSE IF IsBlank(settings.endpoint)
                      THEN "AI service endpoint is not configured"
                      ELSE IF ~keyThere THEN "API key is not configured"
                      ELSE IF IsBlank(settings.model) THEN "AI model is not configured"
                      ELSE Undefined
              IN /\ v.valid <=> /\ settings.enabled
                                /\ ~IsBlank(settings.endpoint)
                                /\ keyThere
                                /\ ~IsBlank(settings.model)
                 /\ v.error = expected
                 /\ ~v.valid =>
                       /\ posted'[g.panel] =
                             posted[g.panel] (+) SetToBag({Msg("briefError", g.id)})
                       /\ g.id \notin generatingArticles'
                       /\ \A h \in gens' : h.pc # "streamBrief"
                       /\ briefCache' = briefCache
      ]_vars

\* C29 witness: enabled, with endpoint and key but a blank model, the panel's
\* request was answered by briefError and nothing was cached.
ValidationOrderWitness ==
    /\ settings.enabled
    /\ ~IsBlank(settings.endpoint)
    /\ ~IsBlank(secret)
    /\ settings.model = <<" ">>
    /\ CopiesIn(Msg("generateBrief", 1), posted["p"]) = 1
    /\ CopiesIn(Msg("briefError", 1), posted["p"]) = 1
    /\ gens = {}
    /\ briefCache = NoBriefs


\* C26: at most one generation per article id is in flight: an id is in
\* generatingArticles exactly while one generation for it is in progress, a
\* generateBrief for an id in generatingArticles starts none, and a
\* generateBrief for an id that is neither cached nor in generatingArticles
\* starts one, whatever exits generations for that id took before.
OneGenerationPerArticle ==
    /\ [](\A i \in Articles :
            /\ Cardinality({g \in gens : g.id = i}) <= 1
            /\ i \in generatingArticles <=> \E g \in gens : g.id = i)
    /\ [][\A panel \in Panels :
            generateBrief(panel, Shown(panel)) =>
                IF Shown(panel) \in generatingArticles
                THEN gens' = gens
                ELSE ~Cached(Shown(panel)) =>
                        \E g \in gens' \ gens : g.panel = panel /\ g.id = Shown(panel)
         ]_vars

\* C26 witness: the generation panel p started ended with briefError, and the
\* one panel q started for the same article afterwards is streaming.
OneGenerationPerArticleWitness ==
    /\ CopiesIn(Msg("briefError", 1), posted["p"]) = 1
    /\ \E g \in gens : g.panel = "q" /\ g.id = 1 /\ g.pc = "streamBrief"
    /\ generatingArticles = {1}


\* C27: the cache of briefs changes only when a stream ends without error,
\* and then the entry of the article is the concatenation of the chunks of
\* this generation; a generation that fails leaves the cache as it is; and a
\* request for an article that has an entry in the cache is answered by one
\* briefCached message and starts no generation.
CachedBriefServed ==
    [][/\ briefCache' # briefCache =>
            \E g \in gens :
                /\ briefComplete(g)
                /\ briefCache' = [briefCache EXCEPT ![g.id] = g.acc]
       /\ \A g \in gens : briefError(g) => briefCache' = briefCache
       /\ \A panel \in Panels :
            (generateBrief(panel, Shown(panel)) /\ briefCache[Shown(panel)] # NoBrief) =>
                /\ gens' = gens
                /\ posted'[panel] = posted[panel] (+)
                      SetToBag({Msg("generateBrief", Shown(panel)),
                                Msg("briefCached", Shown(panel))})
      ]_vars

\* the terminal messages posted to the panel
Answered(panel) ==
    Sent(panel, "briefCached") + Sent(panel, "briefComplete") + Sent(panel, "briefError")

\* C30: every generateBrief message of a panel is answered by exactly one
\* terminal message to that panel: a panel never has more terminal messages
\* than requests, and its n-th request leads to its n-th terminal message.
EveryRequestAnswered ==
    /\ [](\A panel \in Panels : Answered(panel) <= Sent(panel, "generateBrief"))
    /\ \A panel \in Panels : \A n \in 1..MaxBriefs :
          (Sent(panel, "generateBrief") >= n) ~> (Answered(panel) >= n)


\* the messages a step posts to the panel
NewMessages(panel) == BagToSet(posted'[panel] (-) posted[panel])

\* C31: the messages of a generation are ordered. A briefChunk is posted only
\* by a generation that is streaming and goes on streaming, so before its
\* terminal message; it renders what has accumulated, the chunks yielded
\* before and the one just yielded, in their order; no step posts a chunk
\* together with a terminal message. A step posts briefComplete or briefError
\* only for a generation that ends with it, never both, and a generation
\* begins only with a generateBrief message: after its terminal message a
\* request gets no chunk.
MessagesOrdered ==
    [][\A panel \in Panels :
          /\ \A m \in NewMessages(panel) :
                m.type = "briefChunk" =>
                    /\ NewMessages(panel) = {m}
                    /\ \E g \in gens : \E h \in gens' :
                          /\ g.panel = panel /\ g.id = m.id /\ g.pc = "streamBrief"
                          /\ h.panel = panel /\ h.id = m.id /\ h.pc = "streamBrief"
                          /\ Len(h.acc) = Len(g.acc) + 1
                          /\ SubSeq(h.acc, 1, Len(g.acc)) = g.acc
                          /\ m.content = renderMarkdown(h.acc, FALSE)
                          /\ CopiesIn(m, posted'[panel]) >= 1
          /\ \A m \in NewMessages(panel) :
                m.type \in {"briefComplete", "briefError"} =>
                    /\ NewMessages(panel) = {m}
                    /\ \E g \in gens : g.panel = panel /\ g.id = m.id
                    /\ \A h \in gens' : ~(h.panel = panel /\ h.id = m.id)
          /\ \A h \in gens' \ gens :
                (h.panel = panel /\ \A g \in gens : g.panel # panel \/ g.id # h.id) =>
                    Msg("generateBrief", h.id) \in NewMessages(panel)
      ]_vars

\* C31 witness: the stream yielded "a" and then "b"; the panel got the
\* rendering of "a", then that of "ab", then briefComplete, and no briefError.
MessagesOrderedWitness ==
    /\ CopiesIn(Chunk(1, renderMarkdown(<<"a">>, FALSE)), posted["p"]) = 1
    /\ CopiesIn(Chunk(1, renderMarkdown(<<"a", "b">>, FALSE)), posted["p"]) = 1
    /\ CopiesIn(Msg("briefComplete", 1), posted["p"]) = 1
    /\ CopiesIn(Msg("briefError", 1), posted["p"]) = 0
    /\ briefCache[1] = <<"a", "b">>


CollectionsFollowConfiguration ==
    (collections # cfg_accounts) ~> (collections = cfg_accounts)


\* C33: current_account is a key of collections whenever a handler may call
\* currCollection(), in particular after the selected account was removed:
\* stated for the states in which no removal and no reload of the accounts
\* is still on its way.
CurrentAccountLoaded ==
    (removing = {} /\ \A t \in tasks : t.kind # "initAccounts")
        => current_account \in collections


\* C34: the read-state commit of rss_read goes to the Collection of the
\* account the article was opened from: the step in which a suspended
\* rss_read opens its panel leaves the article's id in a flush of that
\* account, whichever account is current by then.
PanelActsOnSource ==
    [][\A r \in reading :
          (r \notin reading' /\ r.id \in panels' \ panels)
              => \E d \in commits'[r.acct] : r.id \in d]_vars


\* C35: rss_read changes nothing before getContent has ended; when getContent
\* fails the read flag, the panels, the pending set and the flushes are as
\* before; when it returns the content the panel is opened, the Abstract the
\* collection holds becomes read and exactly one commit is issued, whose
\* flush holds the article's id.
ReadAfterContent ==
    [][/\ \A i \in Articles :
             rss_read(i) => UNCHANGED <<abstracts, dirty, commits, panels>>
       /\ \A r \in reading :
             /\ contentReturned(r, FALSE) =>
                   UNCHANGED <<abstracts, dirty, commits, panels>>
             /\ contentReturned(r, TRUE) =>
                   /\ panels' = panels \cup {r.id}
                   /\ \A c \in Accounts : \A i \in Articles :
                         abstracts'[c][i] # abstracts[c][i] =>
                            /\ c = r.acct /\ i = r.id
                            /\ abstracts'[c][i] = [abstracts[c][i] EXCEPT !.read = TRUE]
                   /\ abstracts[r.acct][r.id].present =>
                         /\ abstracts'[r.acct][r.id].read
                         /\ commits'[r.acct] = commits[r.acct] \cup {dirty[r.acct] \cup {r.id}}
                         /\ dirty'[r.acct] = {}
                   /\ Cardinality(commits'[r.acct] \ commits[r.acct]) <= 1
    ]_vars

\* C35 witness: getContent of rss_read(1) has failed, and article 1 is still
\* unread with no panel open and no flush in flight.
ReadAfterContentWitness ==
    /\ last = Op("rss_read", currCollection, "-", 1, FALSE)
    /\ abstracts[currCollection][1].present
    /\ ~abstracts[currCollection][1].read
    /\ panels = {}
    /\ commits[currCollection] = {}

====
